---- MODULE Spec2Model ----
(***************************************************************************)
(* QalcTxt: the line-oriented calculation engine.                          *)
(*                                                                         *)
(* Text is modelled character by character: a text is a sequence of        *)
(* one-character strings, so the regular expressions, the string tests     *)
(* and the number formatting of the source are computed as the source      *)
(* computes them.  The CJK fragments of the program's messages are         *)
(* written as single ASCII tokens (one sequence element each):             *)
(*   "CUOWU"      the prefix  U+9519 U+8BEF  ("error") every error message *)
(*                starts with; result_type "error" is decided on it        *)
(*   "WUJIE"      the solver's "no solution" text                          *)
(*   "[...]"      the remaining fragments of a message                     *)
(* A Python number is a record [t, re, im]: t is the Python type ("int",   *)
(* "float", "complex"), re and im are fixed-point values scaled by Scale.  *)
(* A Python string is [t |-> "str", s |-> text]; None is the record None.  *)
(* ResultManager.max_line and ResultData.timestamp are written and never   *)
(* read by the operations modelled here; they are left out of the state.   *)
(***************************************************************************)
EXTENDS Integers, Sequences, FiniteSets, TLC

VARIABLES
    results,          \* ResultManager.results: line number -> ResultData
    lines,            \* the document a calculate_all_lines pass is reading
    pass_line,        \* position of the pass loop (0: no pass is running)
    out,              \* what resolve_line_references gave the last evaluation
    lastOp,           \* the operation that made this state, with its arguments
    prev,             \* results as they were before that operation
    undo,             \* results before the insertion a matched deletion follows
    sympy_available,  \* EquationSolver.sympy_available
    ret               \* what the last call of a query returned, with the call

vars == <<results, lines, pass_line, out, lastOp, prev, undo, sympy_available, ret>>

----------------------------------------------------------------------------
(* Bounds of the model *)

MaxLine == 5          \* line numbers of the renumbering specification
MaxEntries == 3       \* entries its store holds at a time
MaxCount == 2         \* lines one edit inserts or deletes
FracDigits == 2       \* decimal digits a float carries
MaxVal == 30          \* magnitude a stored number may reach
NumLines == 3         \* lines of a document
EvalLines == 2        \* lines evaluated one at a time
MaxIndex == 2         \* variable and solution indices of a reference
MaxFragments == 3   \* fragments a classified text is made of
MaxSolutions == 2   \* solutions (or assignments) in an answer of the backend



----------------------------------------------------------------------------
(* Characters and text *)

DigitSeq == <<"0", "1", "2", "3", "4", "5", "6", "7", "8", "9">>
Digits == {DigitSeq[i] : i \in 1..Len(DigitSeq)}
LowerSeq == <<"a", "b", "c", "d", "e", "f", "g", "h", "i", "j", "k", "l", "m",
              "n", "o", "p", "q", "r", "s", "t", "u", "v", "w", "x", "y", "z">>
UpperSeq == <<"A", "B", "C", "D", "E", "F", "G", "H", "I", "J", "K", "L", "M",
              "N", "O", "P", "Q", "R", "S", "T", "U", "V", "W", "X", "Y", "Z">>
Letters == {LowerSeq[i] : i \in 1..Len(LowerSeq)} \cup {UpperSeq[i] : i \in 1..Len(UpperSeq)}
Space == {" ", "\t"}
\* the message tokens stand for CJK characters, which Python's \w and
\* identifiers accept
CJK == {"CUOWU", "WUJIE", "[chuling]", "[yufa]", "[weizhi]", "[shuzhi]",
        "[yinyong]", "[di]", "[hang-meiyou-jieguo]", "[hang-bushi-shuzhi]",
        "[qiujie]", "[geshi]", "[sympy]"}
WordChars == Letters \cup Digits \cup {"_"} \cup CJK

DigitVal(c) == (CHOOSE i \in 1..Len(DigitSeq) : DigitSeq[i] = c) - 1
DigitChar(n) == DigitSeq[n + 1]

\* str.lower() of one character
LowerChar(c) ==
    IF \E i \in 1..Len(UpperSeq) : UpperSeq[i] = c
    THEN LowerSeq[CHOOSE i \in 1..Len(UpperSeq) : UpperSeq[i] = c]
    ELSE c
Lower(s) == [i \in 1..Len(s) |-> LowerChar(s[i])]

\* s[a..b] (1-based, inclusive), empty when a > b
Slice(s, a, b) == IF a > b THEN <<>> ELSE SubSeq(s, a, b)

\* sub occurs in s at position p
MatchAt(s, sub, p) ==
    /\ p >= 1
    /\ p + Len(sub) - 1 <= Len(s)
    /\ \A i \in 1..Len(sub) : s[p + i - 1] = sub[i]

\* "sub in s"
Contains(s, sub) == \E p \in 1..(Len(s) + 1) : MatchAt(s, sub, p)

\* str.find: the first position of sub at or after from, 0 when there is none
FindFrom(s, sub, from) ==
    IF \E p \in from..(Len(s) + 1) : MatchAt(s, sub, p)
    THEN CHOOSE p \in from..(Len(s) + 1) :
            /\ MatchAt(s, sub, p)
            /\ \A q \in from..(p - 1) : ~MatchAt(s, sub, q)
    ELSE 0
Find(s, sub) == FindFrom(s, sub, 1)

StartsWith(s, sub) == MatchAt(s, sub, 1)

\* str.strip()
Strip(s) ==
    IF \A i \in 1..Len(s) : s[i] \in Space THEN <<>>
    ELSE LET a == CHOOSE i \in 1..Len(s) :
                      s[i] \notin Space /\ \A j \in 1..(i - 1) : s[j] \in Space
             b == CHOOSE i \in 1..Len(s) :
                      s[i] \notin Space /\ \A j \in (i + 1)..Len(s) : s[j] \in Space
         IN  SubSeq(s, a, b)

\* str.replace(old, new) for a one-character old
RECURSIVE ReplaceChar(_, _, _)
ReplaceChar(s, old, new) ==
    IF s = <<>> THEN <<>>
    ELSE (IF Head(s) = old THEN new ELSE <<Head(s)>>) \o ReplaceChar(Tail(s), old, new)

\* the end of the run of characters of class cls that starts at p
\* (p - 1 when s[p] is not in cls)
RECURSIVE RunEnd(_, _, _)
RunEnd(s, p, cls) ==
    IF p <= Len(s) /\ s[p] \in cls THEN RunEnd(s, p + 1, cls) ELSE p - 1

\* int(text) of a digit run
RECURSIVE ParseNat(_)
ParseNat(s) ==
    IF s = <<>> THEN 0 ELSE ParseNat(SubSeq(s, 1, Len(s) - 1)) * 10 + DigitVal(s[Len(s)])

\* str(n) of a Python int
RECURSIVE NatStr(_)
NatStr(n) ==
    IF n < 10 THEN <<DigitChar(n)>> ELSE NatStr(n \div 10) \o <<DigitChar(n % 10)>>
IntStr(n) == IF n < 0 THEN <<"-">> \o NatStr(-n) ELSE NatStr(n)

----------------------------------------------------------------------------
(* Python values *)

RECURSIVE Pow10(_)
Pow10(n) == IF n = 0 THEN 1 ELSE 10 * Pow10(n - 1)
Scale == Pow10(FracDigits)

Num(t, re, im) == [t |-> t, re |-> re, im |-> im]
PyInt(n) == Num("int", n * Scale, 0)
PyFloat(m) == Num("float", m, 0)
PyStr(s) == [t |-> "str", s |-> s]
PyFunc(f) == [t |-> "func", f |-> f]
PyTuple(vs) == [t |-> "tuple", items |-> vs]
None == [t |-> "none"]
\* a raised exception: k is its class, msg the text of str(e)
Exc(k, msg) == [t |-> "exc", k |-> k, msg |-> msg]
\* a Python result this model does not compute (no reachable evaluation may
\* produce it: see NoUnmodelled)
Unmodelled == [t |-> "unmodelled"]

IsNum(v) == v.t \in {"int", "float", "complex"}
IsReal(v) == v.t \in {"int", "float"}
Abs(x) == IF x < 0 THEN -x ELSE x
\* division that truncates toward zero
SDiv(x, y) ==
    IF (x < 0) = (y < 0) THEN Abs(x) \div Abs(y) ELSE -(Abs(x) \div Abs(y))
\* the product of two scaled values
MulS(x, y) ==
    IF x % Scale = 0 THEN (x \div Scale) * y
    ELSE IF y % Scale = 0 THEN x * (y \div Scale)
    ELSE SDiv(x * y, Scale)
\* float.is_integer()
IsInteger(m) == m % Scale = 0

\* trailing zeros of the digits after the point dropped, one digit kept
RECURSIVE DropZeros(_)
DropZeros(s) ==
    IF Len(s) > 1 /\ s[Len(s)] = "0" THEN DropZeros(SubSeq(s, 1, Len(s) - 1)) ELSE s
\* str(x) of a Python float (repr: shortest digits, at least one after the point)
FloatStr(m) ==
    (IF m < 0 THEN <<"-">> ELSE <<>>)
        \o NatStr(Abs(m) \div Scale) \o <<".">>
        \o DropZeros([i \in 1..FracDigits |->
                        DigitChar(((Abs(m) % Scale) \div Pow10(FracDigits - i)) % 10)])
\* str(x) of a Python int or float
RealStr(v) == IF v.t = "int" THEN IntStr(v.re \div Scale) ELSE FloatStr(v.re)
\* str(x) of a Python complex: "(1+2j)", "2j"
ComplexStr(v) ==
    LET part(m) == IF IsInteger(m) THEN IntStr(m \div Scale) ELSE FloatStr(m)
    IN  IF v.re = 0 THEN part(v.im) \o <<"j">>
        ELSE <<"(">> \o part(v.re) \o (IF v.im >= 0 THEN <<"+">> ELSE <<"-">>)
                \o part(Abs(v.im)) \o <<"j", ")">>
\* str(x)
Str(v) ==
    CASE v.t \in {"int", "float"} -> RealStr(v)
      [] v.t = "complex" -> ComplexStr(v)
      [] v.t = "str" -> v.s
      [] OTHER -> <<"[object]">>

----------------------------------------------------------------------------
(* Python arithmetic, as eval() computes it on the expressions of the model *)

Rank(v) == CASE v.t = "int" -> 0 [] v.t = "float" -> 1 [] OTHER -> 2
RankType(r) == CASE r = 0 -> "int" [] r = 1 -> "float" [] OTHER -> "complex"
Wider(a, b) == RankType(IF Rank(a) >= Rank(b) THEN Rank(a) ELSE Rank(b))
TypeError == Exc("TypeError", <<"[unsupported operand]">>)

\* the exception or the unmodelled value among the operands, in evaluation order
Poison(a, b) ==
    IF Unmodelled \in {a, b} \/ "tuple" \in {a.t, b.t} \/ "str" \in {a.t, b.t}
    THEN Unmodelled
    ELSE IF a.t = "exc" THEN a
    ELSE IF b.t = "exc" THEN b
    ELSE TypeError
Both(a, b) == IsNum(a) /\ IsNum(b)
\* the tuple of the values vs, or what stopped the evaluation of its items
TupleOf(vs) ==
    IF \E i \in 1..Len(vs) : vs[i] = Unmodelled THEN Unmodelled
    ELSE IF \E i \in 1..Len(vs) : vs[i].t = "exc"
         THEN vs[CHOOSE i \in 1..Len(vs) :
                    vs[i].t = "exc" /\ \A j \in 1..(i - 1) : vs[j].t # "exc"]
    ELSE PyTuple(vs)

Add(a, b) == IF Both(a, b) THEN Num(Wider(a, b), a.re + b.re, a.im + b.im) ELSE Poison(a, b)
Sub(a, b) == IF Both(a, b) THEN Num(Wider(a, b), a.re - b.re, a.im - b.im) ELSE Poison(a, b)
\* the fixed point holds the product, the quotient, exactly
ExactMul(x, y) == (x * y) % Scale = 0
ExactDiv(x, y) == (x * Scale) % y = 0
Mul(a, b) ==
    IF ~Both(a, b) THEN Poison(a, b)
    ELSE IF ~(ExactMul(a.re, b.re) /\ ExactMul(a.im, b.im)
              /\ ExactMul(a.re, b.im) /\ ExactMul(a.im, b.re))
         THEN Unmodelled
    ELSE Num(Wider(a, b), MulS(a.re, b.re) - MulS(a.im, b.im),
                          MulS(a.re, b.im) + MulS(a.im, b.re))
\* true division: the result is a float (or a complex)
Div(a, b) ==
    IF ~Both(a, b) THEN Poison(a, b)
    ELSE IF b.re = 0 /\ b.im = 0
         THEN Exc("ZeroDivisionError", <<"[division by zero]">>)
    ELSE IF b.im = 0
         THEN IF ExactDiv(a.re, b.re) /\ ExactDiv(a.im, b.re)
              THEN Num(IF Wider(a, b) = "complex" THEN "complex" ELSE "float",
                       SDiv(a.re * Scale, b.re), SDiv(a.im * Scale, b.re))
              ELSE Unmodelled
    ELSE LET den == (b.re * b.re + b.im * b.im) \div Scale
             re == (a.re * b.re + a.im * b.im) \div Scale
             im == (a.im * b.re - a.re * b.im) \div Scale
         IN  IF (b.re * b.re + b.im * b.im) % Scale = 0
                /\ (a.re * b.re + a.im * b.im) % Scale = 0
                /\ (a.im * b.re - a.re * b.im) % Scale = 0
                /\ ExactDiv(re, den) /\ ExactDiv(im, den)
             THEN Num("complex", SDiv(re * Scale, den), SDiv(im * Scale, den))
             ELSE Unmodelled
Neg(a) == IF IsNum(a) THEN Num(a.t, -a.re, -a.im) ELSE Poison(a, a)
Pos(a) == IF IsNum(a) THEN a ELSE Poison(a, a)

\* a ** n for a whole exponent n >= 0, by repeated multiplication
RECURSIVE PowNat(_, _)
PowNat(a, n) == IF n = 0 THEN Num(a.t, Scale, 0) ELSE Mul(PowNat(a, n - 1), a)
Pow(a, b) ==
    IF ~Both(a, b) THEN Poison(a, b)
    ELSE IF b.im # 0 \/ ~IsInteger(b.re) THEN Unmodelled
    ELSE IF b.re >= 0
         THEN LET r == PowNat(a, b.re \div Scale)
              IN  IF IsNum(r) THEN Num(Wider(a, b), r.re, r.im) ELSE r
    ELSE IF a.re = 0 /\ a.im = 0
         THEN Exc("ZeroDivisionError", <<"[0.0 cannot be raised to a negative power]">>)
    ELSE Div(PyFloat(Scale), PowNat(a, (-b.re) \div Scale))

\* the names of CalculatorEngine.safe_dict that are functions or types
SafeFuncs ==
    { <<"a", "b", "s">>, <<"r", "o", "u", "n", "d">>, <<"m", "i", "n">>,
      <<"m", "a", "x">>, <<"s", "u", "m">>, <<"p", "o", "w">>,
      <<"d", "i", "v", "m", "o", "d">>,
      <<"s", "i", "n">>, <<"c", "o", "s">>, <<"t", "a", "n">>,
      <<"a", "s", "i", "n">>, <<"a", "c", "o", "s">>, <<"a", "t", "a", "n">>,
      <<"a", "t", "a", "n", "2">>,
      <<"s", "i", "n", "h">>, <<"c", "o", "s", "h">>, <<"t", "a", "n", "h">>,
      <<"a", "s", "i", "n", "h">>, <<"a", "c", "o", "s", "h">>, <<"a", "t", "a", "n", "h">>,
      <<"e", "x", "p">>, <<"l", "o", "g">>, <<"l", "o", "g", "1", "0">>,
      <<"l", "o", "g", "2">>, <<"s", "q", "r", "t">>,
      <<"c", "e", "i", "l">>, <<"f", "l", "o", "o", "r">>, <<"t", "r", "u", "n", "c">>,
      <<"f", "a", "c", "t", "o", "r", "i", "a", "l">>, <<"g", "c", "d">>,
      <<"d", "e", "g", "r", "e", "e", "s">>, <<"r", "a", "d", "i", "a", "n", "s">>,
      <<"c", "o", "m", "p", "l", "e", "x">>,
      <<"i", "n", "t">>, <<"f", "l", "o", "a", "t">>, <<"b", "o", "o", "l">> }

\* the value eval() finds for a name in safe_dict, or NameError (the
\* irrational constants have no fixed-point value)
safe_dict(name) ==
    CASE name = <<"j">> -> Num("complex", 0, Scale)
      [] name \in {<<"p", "i">>, <<"e">>, <<"t", "a", "u">>} -> Unmodelled
      [] name \in SafeFuncs -> PyFunc(name)
      [] OTHER -> Exc("NameError", <<"[name is not defined]">>)

\* the whole number whose square is m * Scale, or -1
Isqrt(m) ==
    IF \E r \in 0..(MaxVal * Scale) : r * r = m * Scale
    THEN CHOOSE r \in 0..(MaxVal * Scale) : r * r = m * Scale
    ELSE -1

\* f(*args) for the functions the model computes
Apply(f, args) ==
    IF \E i \in 1..Len(args) : args[i] = Unmodelled THEN Unmodelled
    ELSE IF f.t = "exc" THEN f
    ELSE IF \E i \in 1..Len(args) : args[i].t = "exc"
         THEN args[CHOOSE i \in 1..Len(args) :
                     args[i].t = "exc" /\ \A k \in 1..(i - 1) : args[k].t # "exc"]
    ELSE IF f.t # "func" THEN Exc("TypeError", <<"[object is not callable]">>)
    ELSE IF f.f = <<"a", "b", "s">> /\ Len(args) = 1 /\ IsReal(args[1])
         THEN Num(args[1].t, Abs(args[1].re), 0)
    ELSE IF f.f = <<"s", "q", "r", "t">> /\ Len(args) = 1 /\ IsReal(args[1])
         THEN IF args[1].re < 0 THEN Exc("ValueError", <<"[math domain error]">>)
              ELSE IF Isqrt(args[1].re) >= 0 THEN PyFloat(Isqrt(args[1].re))
              ELSE Unmodelled
    ELSE Unmodelled

----------------------------------------------------------------------------
(* eval(): Python's expression grammar, read with an operator stack          *)
(*   list   := expr (',' expr)*                                              *)
(*   expr   := term (('+' | '-') term)*                                      *)
(*   term   := factor (('*' | '/') factor)*                                  *)
(*   factor := ('+' | '-') factor | power                                    *)
(*   power  := atom trailer* ['**' factor]                                   *)
(*   atom   := NUMBER | NAME | '(' list ')'        trailer := '(' list ')'   *)
(* The source compiles the text before it evaluates it, so a SyntaxError    *)
(* anywhere wins over an exception raised while evaluating: an exception    *)
(* is carried as a value and the parse goes on.                             *)

\* Python syntax outside the grammar above
OtherSyntax == {"%", "<", ">", "[", "]", "!", "~", "|", "&", "{", "}", "'", "\"", "@", "."}
Keywords == { <<"l", "a", "m", "b", "d", "a">>, <<"i", "f">>, <<"e", "l", "s", "e">>,
              <<"n", "o", "t">>, <<"a", "n", "d">>, <<"o", "r">>, <<"i", "n">>,
              <<"i", "s">>, <<"f", "o", "r">>, <<"N", "o", "n", "e">>,
              <<"T", "r", "u", "e">>, <<"F", "a", "l", "s", "e">> }

Ok(v, p) == [ok |-> TRUE, v |-> v, p |-> p]
SyntaxFail == [ok |-> FALSE, unmodelled |-> FALSE]
UnmodelledFail == [ok |-> FALSE, unmodelled |-> TRUE]
\* the parse stops at p
FailAt(s, p) ==
    IF p <= Len(s) /\ (s[p] \in OtherSyntax \/ MatchAt(s, <<"=", "=">>, p)
                        \/ MatchAt(s, <<"/", "/">>, p) \/ MatchAt(s, <<":", "=">>, p))
    THEN UnmodelledFail ELSE SyntaxFail
SkipWs(s, p) == RunEnd(s, p, Space) + 1

\* a NUMBER token at p: digits, digits '.' digits, '.' digits
ParseNumber(s, p) ==
    LET e == RunEnd(s, p, Digits)                 \* end of the integer digits
        hasDot == e + 1 <= Len(s) /\ s[e + 1] = "."
        f == IF hasDot THEN RunEnd(s, e + 2, Digits) ELSE e
        ip == Slice(s, p, e)
        fp == Slice(s, e + 2, f)
        kept == [i \in 1..FracDigits |-> IF i <= Len(fp) THEN fp[i] ELSE "0"]
    IN  IF ~hasDot
        THEN IF Len(ip) > 1 /\ ip[1] = "0" /\ \E i \in 1..Len(ip) : ip[i] # "0"
             THEN SyntaxFail              \* leading zeros in a decimal integer
             ELSE Ok(PyInt(ParseNat(ip)), e + 1)
        ELSE IF ip = <<>> /\ fp = <<>> THEN FailAt(s, p)
        ELSE IF \E i \in (FracDigits + 1)..Len(fp) : fp[i] # "0" THEN UnmodelledFail
        ELSE Ok(PyFloat(ParseNat(ip) * Scale + ParseNat(kept)), f + 1)

\* One operator waiting on the stack: k is "+", "-", "*", "/", "**", the
\* prefix signs "u+" and "u-", or "(" for an open parenthesis; an open
\* parenthesis is a call's (call) or a group's, and the values above base are
\* its list
OpItem(k, call, base) == [k |-> k, call |-> call, base |-> base]
Prec(k) == IF k \in {"+", "-"} THEN 1
           ELSE IF k \in {"*", "/"} THEN 2
           ELSE IF k \in {"u+", "u-"} THEN 3
           ELSE IF k = "**" THEN 4
           ELSE 0

\* The parse in progress: the position, whether an operand is expected, the
\* values and the operators read so far, and how it ended ("run" until then)
EvalState(p, operand, vals, ops, status) ==
    [p |-> p, operand |-> operand, vals |-> vals, ops |-> ops, status |-> status]
EvalStop(st, fail) ==
    [st EXCEPT !.status = IF fail.unmodelled THEN "unmodelled" ELSE "syntax"]
Front(q) == SubSeq(q, 1, Len(q) - 1)
Last(q) == q[Len(q)]

\* the operator on top of the stack is applied to the values on top
ApplyTop(st) ==
    LET k == Last(st.ops).k
        n == Len(st.vals)
        b == st.vals[n]
    IN  IF k \in {"u+", "u-"}
        THEN [st EXCEPT !.ops = Front(st.ops),
                        !.vals = Append(Front(st.vals), IF k = "u-" THEN Neg(b) ELSE Pos(b))]
        ELSE LET a == st.vals[n - 1]
                 v == IF k = "+" THEN Add(a, b)
                      ELSE IF k = "-" THEN Sub(a, b)
                      ELSE IF k = "*" THEN Mul(a, b)
                      ELSE IF k = "/" THEN Div(a, b)
                      ELSE Pow(a, b)
             IN  [st EXCEPT !.ops = Front(st.ops),
                            !.vals = Append(SubSeq(st.vals, 1, n - 2), v)]

\* an operand is expected at st.p: a NUMBER, a NAME, '(' or a sign
StepOperand(s, st) ==
    LET p == SkipWs(s, st.p)
    IN  IF p > Len(s) THEN EvalStop(st, SyntaxFail)
        ELSE IF s[p] \in Digits \/ (s[p] = "." /\ p < Len(s) /\ s[p + 1] \in Digits)
             THEN LET n == ParseNumber(s, p)
                  IN  IF ~n.ok THEN EvalStop(st, n)
                      ELSE EvalState(n.p, FALSE, Append(st.vals, n.v), st.ops, "run")
        ELSE IF s[p] \in WordChars
             THEN LET e == RunEnd(s, p, WordChars)
                      name == SubSeq(s, p, e)
                  IN  IF name \in Keywords THEN EvalStop(st, UnmodelledFail)
                      ELSE EvalState(e + 1, FALSE, Append(st.vals, safe_dict(name)),
                                     st.ops, "run")
        ELSE IF s[p] = "("
             THEN IF SkipWs(s, p + 1) <= Len(s) /\ s[SkipWs(s, p + 1)] = ")"
                  THEN EvalStop(st, UnmodelledFail)          \* the empty tuple
                  ELSE EvalState(p + 1, TRUE, st.vals,
                                 Append(st.ops, OpItem("(", FALSE, Len(st.vals))), "run")
        ELSE IF s[p] \in {"+", "-"}
             THEN EvalState(p + 1, TRUE, st.vals,
                            Append(st.ops, OpItem(IF s[p] = "-" THEN "u-" ELSE "u+", FALSE, 0)),
                            "run")
        ELSE EvalStop(st, FailAt(s, p))

\* the ')' at p closes the parenthesis on top of the stack
CloseParen(st, p) ==
    LET m == Last(st.ops)
        args == SubSeq(st.vals, m.base + 1, Len(st.vals))
    IN  IF m.call
        THEN EvalState(p + 1, FALSE,
                       Append(SubSeq(st.vals, 1, m.base - 1), Apply(st.vals[m.base], args)),
                       Front(st.ops), "run")
        ELSE EvalState(p + 1, FALSE,
                       Append(SubSeq(st.vals, 1, m.base),
                              IF Len(args) = 1 THEN args[1] ELSE TupleOf(args)),
                       Front(st.ops), "run")

\* an operand has been read: a binary operator, a call, ',' , ')' or the end
StepOperator(s, st) ==
    LET p == SkipWs(s, st.p)
        c == IF p <= Len(s) THEN s[p] ELSE "END"
        tok == IF MatchAt(s, <<"*", "*">>, p) THEN "**"
               ELSE IF c \in {"+", "-", "*"} THEN c
               ELSE IF c = "/" /\ ~MatchAt(s, <<"/", "/">>, p) THEN "/"
               ELSE "NONE"
        waiting == st.ops # <<>> /\ Last(st.ops).k # "("    \* an operator is on top
    IN  IF tok # "NONE"
        THEN IF waiting /\ (Prec(Last(st.ops).k) > Prec(tok)
                            \/ (Prec(Last(st.ops).k) = Prec(tok) /\ tok # "**"))
             THEN ApplyTop(st)
             ELSE EvalState(p + (IF tok = "**" THEN 2 ELSE 1), TRUE, st.vals,
                            Append(st.ops, OpItem(tok, FALSE, 0)), "run")
        ELSE IF c = "("
             THEN IF SkipWs(s, p + 1) <= Len(s) /\ s[SkipWs(s, p + 1)] = ")"
                  THEN EvalState(SkipWs(s, p + 1) + 1, FALSE,
                                 Append(Front(st.vals), Apply(Last(st.vals), <<>>)),
                                 st.ops, "run")
                  ELSE EvalState(p + 1, TRUE, st.vals,
                                 Append(st.ops, OpItem("(", TRUE, Len(st.vals))), "run")
        ELSE IF c = "." /\ p < Len(s) /\ s[p + 1] \in Digits
             THEN EvalStop(st, SyntaxFail)                  \* a NUMBER after an operand
        ELSE IF c \in {".", "["} THEN EvalStop(st, UnmodelledFail)
        ELSE IF c \in {",", ")", "END"} /\ waiting THEN ApplyTop(st)
        ELSE IF c = ","
             THEN IF SkipWs(s, p + 1) > Len(s) \/ s[SkipWs(s, p + 1)] = ")"
                  THEN EvalStop(st, UnmodelledFail)          \* a trailing comma
                  ELSE EvalState(p + 1, TRUE, st.vals, st.ops, "run")
        ELSE IF c = ")"
             THEN IF st.ops = <<>> THEN EvalStop(st, FailAt(s, p)) ELSE CloseParen(st, p)
        ELSE IF c = "END"
             THEN IF st.ops = <<>> THEN [st EXCEPT !.status = "ok"]
                  ELSE EvalStop(st, SyntaxFail)             \* '(' was never closed
        ELSE EvalStop(st, FailAt(s, p))

\* the parse, run to its end
RECURSIVE EvalRun(_, _)
EvalRun(s, st) ==
    IF st.status # "run" THEN st
    ELSE EvalRun(s, IF st.operand THEN StepOperand(s, st) ELSE StepOperator(s, st))

\* eval(text, {"__builtins__": {}}, safe_dict): the value, or the exception raised
Eval(s) ==
    LET st == EvalRun(s, EvalState(1, TRUE, <<>>, <<>>, "run"))
    IN  IF st.status = "unmodelled" THEN Unmodelled
        ELSE IF st.status = "syntax" THEN Exc("SyntaxError", <<"[invalid syntax]">>)
        ELSE IF Len(st.vals) = 1 THEN st.vals[1] ELSE TupleOf(st.vals)

----------------------------------------------------------------------------
(* CalculatorEngine *)

\* re.sub(r'(A)(B)', r'\1*\2', s): a '*' between every character of class A
\* and the character of class B that follows it, matches taken left to right
\* without overlap
RECURSIVE InsertStar(_, _, _)
InsertStar(s, A, B) ==
    IF Len(s) < 2 THEN s
    ELSE IF s[1] \in A /\ s[2] \in B
         THEN <<s[1], "*", s[2]>> \o InsertStar(SubSeq(s, 3, Len(s)), A, B)
    ELSE <<s[1]>> \o InsertStar(Tail(s), A, B)

\* CalculatorEngine._preprocess_expression ("[mul-sign]" and "[div-sign]"
\* stand for U+00D7 and U+00F7)
PreprocessExpression(expression) ==
    LET e0 == Strip(expression)
        e1 == ReplaceChar(e0, "^", <<"*", "*">>)
        e2 == ReplaceChar(e1, "[mul-sign]", <<"*">>)
        e3 == ReplaceChar(e2, "[div-sign]", <<"/">>)
        e4 == InsertStar(e3, Digits, Letters)
        e5 == InsertStar(e4, Letters, Digits)
        e6 == InsertStar(e5, {")"}, Digits)
    IN  InsertStar(e6, Digits, {"("})

\* CalculatorEngine._format_result on a real number
FormatReal(v) ==
    IF v.t = "float" /\ IsInteger(v.re) THEN Num("int", v.re, 0) ELSE v

\* CalculatorEngine._format_result
FormatResult(result) ==
    IF IsReal(result) THEN FormatReal(result)
    ELSE IF result.t = "complex"
         THEN IF result.im = 0 THEN FormatReal(PyFloat(result.re))
              ELSE IF result.re = 0
                   THEN IF result.im = Scale THEN PyStr(<<"j">>)
                        ELSE IF result.im = -Scale THEN PyStr(<<"-", "j">>)
                        ELSE PyStr(Str(FormatReal(PyFloat(result.im))) \o <<"j">>)
              ELSE LET real_part == FormatReal(PyFloat(result.re))
                       imag_part == FormatReal(PyFloat(Abs(result.im)))
                       sign == IF result.im >= 0 THEN <<"+">> ELSE <<"-">>
                   IN  IF imag_part = PyInt(1)
                       THEN PyStr(Str(real_part) \o sign \o <<"j">>)
                       ELSE PyStr(Str(real_part) \o sign \o Str(imag_part) \o <<"j">>)
    ELSE result

ErrPrefix == <<"CUOWU", ":", " ">>

\* a calculation that lets the exception through
CalculateRaises(result) == result

\* CalculatorEngine.calculate after eval(): the formatted result, or the
\* error text of the except clause that catches the exception
CalculateResult(result) ==
    IF result = Unmodelled THEN Unmodelled
    ELSE IF result.t = "exc"
         THEN CASE result.k = "ZeroDivisionError" -> PyStr(ErrPrefix \o <<"[chuling]">>)
                [] result.k = "ValueError" ->
                     PyStr(ErrPrefix \o <<"[shuzhi]", " ", "-", " ">> \o result.msg)
                [] result.k = "SyntaxError" ->
                     PyStr(ErrPrefix \o <<"[yufa]", " ", "-", " ">> \o result.msg)
                [] result.k = "NameError" ->
                     PyStr(ErrPrefix \o <<"[weizhi]", " ", "-", " ">> \o result.msg)
                [] OTHER -> PyStr(ErrPrefix \o result.msg)
    ELSE FormatResult(result)

\* CalculatorEngine.calculate
Calculate(expression) == CalculateResult(Eval(PreprocessExpression(expression)))

----------------------------------------------------------------------------
(* ResultData: the regular expressions that read solutions back from the    *)
(* formatted result                                                         *)

NoIndex == 0 - 1      \* an index argument that is None

\* the end of a match of  [-+]?\d*\.?\d+  at p, or 0 when there is none
NumberEnd(s, p) ==
    LET q == IF p <= Len(s) /\ s[p] \in {"-", "+"} THEN p + 1 ELSE p
        e == RunEnd(s, q, Digits)                   \* end of the greedy \d*
        f == IF e + 1 <= Len(s) /\ s[e + 1] = "." THEN RunEnd(s, e + 2, Digits) ELSE 0
    IN  IF f >= e + 2 THEN f                        \* digits* '.' digits+
        ELSE IF e >= q THEN e                       \* digits+
        ELSE 0
\* the match has an exponent part  [eE][-+]?\d+
HasExponent(s, e) ==
    /\ e + 1 <= Len(s) /\ s[e + 1] \in {"e", "E"}
    /\ LET q == IF e + 2 <= Len(s) /\ s[e + 2] \in {"-", "+"} THEN e + 3 ELSE e + 2
       IN  RunEnd(s, q, Digits) >= q
\* float(text) of a match of the number pattern without exponent
ToFloat(t) ==
    LET neg == t[1] = "-"
        u == IF t[1] \in {"-", "+"} THEN Tail(t) ELSE t
        d == Find(u, <<".">>)
        ip == IF d = 0 THEN u ELSE Slice(u, 1, d - 1)
        fp == IF d = 0 THEN <<>> ELSE Slice(u, d + 1, Len(u))
        kept == [i \in 1..FracDigits |-> IF i <= Len(fp) THEN fp[i] ELSE "0"]
        m == ParseNat(ip) * Scale + ParseNat(kept)
    IN  IF \E i \in (FracDigits + 1)..Len(fp) : fp[i] # "0" THEN Unmodelled
        ELSE PyFloat(IF neg THEN -m ELSE m)

\* a match of  x(\[\d+\])?\s*=\s*(number)  at p: [ok, v: float(group 1), p: its end].
\* indexed selects the pattern with the  \[\d+\]  part
SolutionMatch(s, p, indexed) ==
    LET b == IF indexed THEN RunEnd(s, p + 2, Digits) + 1 ELSE p   \* the ']' or the 'x'
        okHead == /\ p <= Len(s) /\ s[p] = "x"
                  /\ indexed => /\ p + 1 <= Len(s) /\ s[p + 1] = "["
                                /\ b > p + 2
                                /\ b <= Len(s) /\ s[b] = "]"
        eq == SkipWs(s, b + 1)
        n == SkipWs(s, eq + 1)
        e == NumberEnd(s, n)
    IN  IF okHead /\ eq <= Len(s) /\ s[eq] = "=" /\ e > 0
        THEN [ok |-> TRUE,
              v |-> IF HasExponent(s, e) THEN Unmodelled ELSE ToFloat(SubSeq(s, n, e)),
              p |-> e]
        ELSE [ok |-> FALSE]

\* re.findall of the indexed pattern from p on
RECURSIVE FindAllSolutions(_, _)
FindAllSolutions(s, p) ==
    IF p > Len(s) THEN <<>>
    ELSE LET m == SolutionMatch(s, p, TRUE)
         IN  IF m.ok THEN <<m.v>> \o FindAllSolutions(s, m.p + 1)
             ELSE FindAllSolutions(s, p + 1)

\* ResultData._extract_numeric_solutions
ExtractNumericSolutions(formatted_result) ==
    LET solutions == FindAllSolutions(formatted_result, 1)
        hits == {p \in 1..Len(formatted_result) : SolutionMatch(formatted_result, p, FALSE).ok}
    IN  IF solutions # <<>> THEN solutions
        ELSE IF hits = {} THEN <<>>
        ELSE <<SolutionMatch(formatted_result,
                             CHOOSE p \in hits : \A q \in hits : p <= q, FALSE).v>>


\* a Python dict with text keys, in insertion order: a sequence of [k, v]
DictHas(d, k) == \E i \in 1..Len(d) : d[i].k = k
DictGet(d, k) == d[CHOOSE i \in 1..Len(d) : d[i].k = k].v
DictSet(d, k, v) ==
    IF DictHas(d, k) THEN [i \in 1..Len(d) |-> IF d[i].k = k THEN [k |-> k, v |-> v] ELSE d[i]]
    ELSE Append(d, [k |-> k, v |-> v])

\* str.split(sep) for a one-character sep
RECURSIVE Split(_, _)
Split(s, sep) ==
    LET p == Find(s, <<sep>>)
    IN  IF p = 0 THEN <<s>>
        ELSE <<Slice(s, 1, p - 1)>> \o Split(Slice(s, p + 1, Len(s)), sep)

\* the class  [\d\.e\-\+\*/\(\)\w\s]  of the value group
ValueChars == WordChars \cup Space \cup {".", "-", "+", "*", "/", "(", ")"}

\* float(text): the float, Unmodelled for the forms the model does not
\* compute (exponent, inf, nan, underscores), None when float() raises
FloatOf(text) ==
    LET t == Strip(text)
        e == IF t = <<>> THEN 0 ELSE NumberEnd(t, 1)
        u == IF t # <<>> /\ t[1] \in {"-", "+"} THEN Tail(t) ELSE t
    IN  IF t = <<>> THEN None
        ELSE IF e = Len(t) THEN ToFloat(t)
        ELSE IF e = Len(t) - 1 /\ e > 0 /\ t[Len(t)] = "." /\ t[e] \in Digits
                /\ ~Contains(SubSeq(t, 1, e), <<".">>)
             THEN ToFloat(SubSeq(t, 1, e))                 \* "2."
        ELSE IF \A i \in 1..Len(u) : u[i] \in Digits \cup {".", "-", "+"} THEN None
        ELSE IF \E i \in 1..Len(u) : u[i] \notin WordChars \cup {".", "-", "+"} THEN None
        ELSE IF u[1] \in Digits \cup {".", "i", "I", "n", "N"} THEN Unmodelled
        ELSE None

\* the value a variable's solution is stored as
SolutionValue(value_str) ==
    IF Contains(value_str, <<"/">>) \/ Contains(value_str, <<"s", "q", "r", "t">>)
    THEN PyStr(Strip(value_str))
    ELSE LET numeric_value == FloatOf(value_str)
         IN  IF numeric_value = Unmodelled THEN Unmodelled
             ELSE IF numeric_value = None THEN PyStr(Strip(value_str))
             ELSE IF IsInteger(numeric_value.re) THEN Num("int", numeric_value.re, 0)
             ELSE numeric_value

\* a match of  ([a-zA-Z]\w*)(\[(\d+)\])?\s*=\s*([-+]?[value chars]+)  at p:
\* [ok, name, index, value, p: its end]
VariableMatch(s, p, indexed) ==
    LET ne == RunEnd(s, p + 1, WordChars)           \* end of the name
        b == IF indexed THEN RunEnd(s, ne + 2, Digits) + 1 ELSE ne
        okHead == /\ p <= Len(s) /\ s[p] \in Letters
                  /\ indexed => /\ ne + 1 <= Len(s) /\ s[ne + 1] = "["
                                /\ b > ne + 2
                                /\ b <= Len(s) /\ s[b] = "]"
        eq == SkipWs(s, b + 1)
        n == SkipWs(s, eq + 1)
        e == RunEnd(s, n, ValueChars)
        start == IF e >= n THEN n ELSE n - 1        \* only blanks follow '='
    IN  IF okHead /\ eq <= Len(s) /\ s[eq] = "=" /\ (e >= n \/ n > eq + 1)
        THEN [ok |-> TRUE, name |-> SubSeq(s, p, ne),
              index |-> IF indexed THEN ParseNat(Slice(s, ne + 2, b - 1)) ELSE 0,
              value |-> SubSeq(s, start, IF e >= n THEN e ELSE n - 1),
              p |-> IF e >= n THEN e ELSE n - 1]
        ELSE [ok |-> FALSE]

\* re.findall of the variable pattern from p on
RECURSIVE FindAllVariables(_, _, _)
FindAllVariables(s, p, indexed) ==
    IF p > Len(s) THEN <<>>
    ELSE LET m == VariableMatch(s, p, indexed)
         IN  IF m.ok THEN <<m>> \o FindAllVariables(s, m.p + 1, indexed)
             ELSE FindAllVariables(s, p + 1, indexed)

\* the list with value put at index (0-based), padded with None
PutAt(list, index, value) ==
    [i \in 1..(IF Len(list) > index + 1 THEN Len(list) ELSE index + 1) |->
        IF i = index + 1 THEN value ELSE IF i <= Len(list) THEN list[i] ELSE None]

RECURSIVE AddIndexed(_, _), AddSimple(_, _), AddGroups(_, _)
AddIndexed(d, ms) ==
    IF ms = <<>> THEN d
    ELSE LET m == Head(ms)
             old == IF DictHas(d, m.name) THEN DictGet(d, m.name) ELSE <<>>
         IN  AddIndexed(DictSet(d, m.name, PutAt(old, m.index, SolutionValue(m.value))),
                        Tail(ms))
AddSimple(d, ms) ==
    IF ms = <<>> THEN d
    ELSE AddSimple(DictSet(d, Head(ms).name, <<SolutionValue(Head(ms).value)>>), Tail(ms))
AddGroups(d, groups) ==
    IF groups = <<>> THEN d
    ELSE AddGroups(AddIndexed(d, FindAllVariables(Strip(Head(groups)), 1, TRUE)), Tail(groups))

\* ResultData.extract_variable_solutions
ExtractVariableSolutions(formatted_result) ==
    LET variable_solutions ==
            IF Contains(formatted_result, <<";">>)
            THEN AddGroups(<<>>, Split(formatted_result, ";"))
            ELSE <<>>
    IN  IF variable_solutions # <<>> THEN variable_solutions
        ELSE AddSimple(<<>>, FindAllVariables(formatted_result, 1, FALSE))


----------------------------------------------------------------------------
(* ResultManager.  The store is a function from the line numbers that have  *)
(* an entry to ResultData records; the timestamp field is left out.         *)

EmptyStore == [k \in {} |-> None]

\* ResultManager._determine_result_type
DetermineResultType(result, is_equation) ==
    IF result.t = "str" /\ StartsWith(result.s, <<"CUOWU">>) THEN "error"
    ELSE IF is_equation /\ result.t = "str"
            /\ (Contains(result.s, <<"[">>) \/ Contains(result.s, <<"x", "[">>))
         THEN "multiple"
    ELSE "single"

\* ResultData.__init__
ResultData(line_number, expression, result, result_type, is_equation) ==
    [line_number |-> line_number,
     expression |-> expression,
     result |-> result,
     result_type |-> result_type,
     is_equation |-> is_equation,
     solutions |-> IF is_equation /\ result.t = "str"
                   THEN ExtractNumericSolutions(result.s) ELSE <<>>,
     variable_solutions |-> IF is_equation /\ result.t = "str"
                            THEN ExtractVariableSolutions(result.s) ELSE <<>>]

\* self.results[key] = data
Put(res, key, data) ==
    [k \in (DOMAIN res) \cup {key} |-> IF k = key THEN data ELSE res[k]]

\* ResultManager.store_result: the new results
StoreResult(res, line_number, expression, result, is_equation) ==
    Put(res, line_number,
        ResultData(line_number, expression, result,
                   DetermineResultType(result, is_equation), is_equation))

\* ResultManager.remove_result: the new results
RemoveResult(res, line_number) ==
    [k \in (DOMAIN res) \ {line_number} |-> res[k]]

\* a clear that leaves the store as it is
NotCleared(res) == res

\* ResultManager.clear_results: the new results
ClearResults(res) == EmptyStore

\* a lookup that takes the first variable whatever the variable index
GetFirstVariable(res, line_number, solution_index, variable_index) ==
    IF line_number \notin DOMAIN res THEN None
    ELSE IF res[line_number].variable_solutions = <<>> THEN None
    ELSE IF 0 <= solution_index
            /\ solution_index < Len(res[line_number].variable_solutions[1].v)
         THEN res[line_number].variable_solutions[1].v[solution_index + 1]
    ELSE None

\* ResultManager.get_result
GetResult(res, line_number, solution_index, variable_index) ==
    IF line_number \notin DOMAIN res THEN None
    ELSE LET result_data == res[line_number]
             variable_names == [i \in 1..Len(result_data.variable_solutions) |->
                                   result_data.variable_solutions[i].k]
         IN  IF result_data.result_type = "error" THEN None
             ELSE IF variable_index # NoIndex /\ result_data.variable_solutions # <<>>
                  THEN IF 0 <= variable_index /\ variable_index < Len(variable_names)
                       THEN LET var_solutions ==
                                    result_data.variable_solutions[variable_index + 1].v
                            IN  IF solution_index # NoIndex
                                THEN IF 0 <= solution_index /\ solution_index < Len(var_solutions)
                                     THEN var_solutions[solution_index + 1]
                                     ELSE None
                                ELSE IF var_solutions # <<>> THEN var_solutions[1] ELSE None
                       ELSE None
             ELSE IF solution_index # NoIndex
                  THEN IF result_data.is_equation /\ result_data.solutions # <<>>
                       THEN IF 0 <= solution_index /\ solution_index < Len(result_data.solutions)
                            THEN result_data.solutions[solution_index + 1]
                            ELSE None
                       ELSE IF solution_index = 0 THEN result_data.result ELSE None
             ELSE IF result_data.is_equation /\ result_data.solutions # <<>>
                  THEN result_data.solutions[1]
             ELSE result_data.result

----------------------------------------------------------------------------
(* ExpressionParser *)

\* ExpressionParser.remove_comments
RemoveComments(text) ==
    LET comment_pos == Find(text, <<"#">>)
    IN  IF comment_pos > 0 THEN Slice(text, 1, comment_pos - 1) ELSE text

\* replace_reference of resolve_line_references, for the match of
\* @(\d+)(?:\.(\d+))? that names line_num and solution_index:
\* [ok, s: the replacement] or [ok |-> FALSE, msg: the ValueError's text]
ReplaceReference(res, line_num, solution_index) ==
    LET result == GetResult(res, line_num, solution_index, NoIndex)
    IN  IF result = None
        THEN [ok |-> FALSE, msg |-> <<"[di]">> \o NatStr(line_num) \o <<"[hang-meiyou-jieguo]">>]
        ELSE IF IsNum(result)
             THEN [ok |-> TRUE,
                   s |-> IF result.t = "complex" THEN <<"(">> \o Str(result) \o <<")">>
                         ELSE Str(result)]
        ELSE [ok |-> FALSE,
              msg |-> <<"[di]">> \o NatStr(line_num) \o <<"[hang-bushi-shuzhi]", ":", " ">>
                          \o Str(result)]

\* line_ref_pattern.sub(replace_reference, expression) from position p on:
\* the matches are taken left to right, the replacement text is not scanned
\* again, the first replacement that raises ends the call
RECURSIVE SubReferences(_, _, _)
SubReferences(s, p, res) ==
    IF p > Len(s) THEN [ok |-> TRUE, s |-> <<>>]
    ELSE IF s[p] = "@" /\ p < Len(s) /\ s[p + 1] \in Digits
         THEN LET e == RunEnd(s, p + 1, Digits)
                  hasIndex == e + 2 <= Len(s) /\ s[e + 1] = "." /\ s[e + 2] \in Digits
                  f == IF hasIndex THEN RunEnd(s, e + 2, Digits) ELSE e
                  r == ReplaceReference(res, ParseNat(SubSeq(s, p + 1, e)),
                                        IF hasIndex THEN ParseNat(SubSeq(s, e + 2, f))
                                        ELSE NoIndex)
              IN  IF ~r.ok THEN r
                  ELSE LET rest == SubReferences(s, f + 1, res)
                       IN  IF ~rest.ok THEN rest ELSE [ok |-> TRUE, s |-> r.s \o rest.s]
    ELSE LET rest == SubReferences(s, p + 1, res)
         IN  IF ~rest.ok THEN rest ELSE [ok |-> TRUE, s |-> <<s[p]>> \o rest.s]

\* ExpressionParser.resolve_line_references: [ok, s], or [ok |-> FALSE, msg]
\* when it raises
ResolveLineReferences(expression, res) == SubReferences(expression, 1, res)

\* ExpressionParser.parse_expression once the comment is removed:
\* (expression, is_empty, original)
ParseResolved(original_text, expression, resolved) ==
    IF original_text = <<>>
    THEN [expression |-> <<>>, is_empty |-> TRUE, original |-> original_text]
    ELSE IF Strip(expression) = <<>>
         THEN [expression |-> <<>>, is_empty |-> TRUE, original |-> original_text]
    ELSE IF ~resolved.ok
         THEN [expression |-> ErrPrefix \o <<"[yinyong]", " ", "-", " ">> \o resolved.msg,
               is_empty |-> FALSE, original |-> original_text]
    ELSE [expression |-> Strip(resolved.s), is_empty |-> FALSE,
          original |-> original_text]

\* ExpressionParser.parse_expression
ParseExpression(text, res) ==
    ParseResolved(Strip(text), RemoveComments(Strip(text)),
                  ResolveLineReferences(RemoveComments(Strip(text)), res))

----------------------------------------------------------------------------
\* ExpressionParser.get_expression_type
GetExpressionType(expression) ==
    LET var_part == Strip(Slice(expression, 1, Find(expression, <<":">>) - 1))
        eq_part == Strip(Slice(expression, Find(expression, <<":">>) + 1,
                               Len(expression)))
        solve == <<"s", "o", "l", "v", "e">>
    IN  IF Strip(expression) = <<>> THEN "empty"
        ELSE IF /\ Contains(expression, <<":">>)
                /\ Contains(expression, <<",">>)
                /\ Contains(var_part, <<",">>)
                /\ Contains(eq_part, <<"=">>)
             THEN "equation_system"
        ELSE IF Contains(expression, <<"=">>) /\ ~Contains(Lower(expression), solve)
             THEN "equation"
        ELSE IF Contains(Lower(expression), solve) THEN "equation"
        ELSE "numeric"

----------------------------------------------------------------------------

(* EquationSolver.  The symbolic backend (SymPy) is outside the repository: *)
(* it is modelled by the answers it gives to the equations of the model.    *)
(* A solution of the backend is [kind, m, text]: kind "real" with the       *)
(* scaled value m, "symbolic" (free symbols are left) or "nonreal" (no      *)
(* free symbols, float() raises), with text the backend's str().            *)

Real(n) == [kind |-> "real", m |-> n * Scale, text |-> IntStr(n)]

\* "a:b".split(':', 1): the parts before and after the first ':'
VarPart(expression) == Strip(Slice(expression, 1, Find(expression, <<":">>) - 1))
EqPart(expression) ==
    Strip(Slice(expression, Find(expression, <<":">>) + 1, Len(expression)))
\* the test for the form  x,y:expr1=val1,expr2=val2
IsSystemForm(expression) ==
    /\ Contains(expression, <<":">>)
    /\ Contains(expression, <<",">>)
    /\ Contains(VarPart(expression), <<",">>)
    /\ Contains(EqPart(expression), <<"=">>)

\* EquationSolver.is_equation
is_equation(expression) ==
    \/ IsSystemForm(expression)
    \/ /\ Contains(expression, <<"=">>)
       /\ ~Contains(Lower(expression), <<"s", "o", "l", "v", "e">>)
    \/ Contains(Lower(expression), <<"s", "o", "l", "v", "e", "(">>)

\* re.sub(r'([a-zA-Z\d])\((?![a-zA-Z_])', r'\1*(', s)
RECURSIVE InsertStarBeforeParen(_)
InsertStarBeforeParen(s) ==
    IF Len(s) < 2 THEN s
    ELSE IF s[1] \in Letters \cup Digits /\ s[2] = "("
            /\ ~(Len(s) >= 3 /\ s[3] \in Letters \cup {"_"})
         THEN <<s[1], "*", "(">> \o InsertStarBeforeParen(SubSeq(s, 3, Len(s)))
    ELSE <<s[1]>> \o InsertStarBeforeParen(Tail(s))

\* EquationSolver._preprocess_equation
PreprocessEquation(equation_str) ==
    LET eq == Strip(equation_str)
        e1 == ReplaceChar(eq, "^", <<"*", "*">>)
        e2 == ReplaceChar(e1, "[mul-sign]", <<"*">>)
        e3 == ReplaceChar(e2, "[div-sign]", <<"/">>)
        e4 == InsertStar(e3, Digits, Letters)
        e5 == InsertStar(e4, Letters, Digits)
        e6 == InsertStar(e5, {")"}, Letters \cup Digits)
    IN  IF Contains(Lower(eq), <<"s", "o", "l", "v", "e", "(">>) THEN e1
        ELSE InsertStarBeforeParen(e6)

\* str() of the two roots of x**3 - 1 that are not real:
\* -1/2 - sqrt(3)*I/2 and -1/2 + sqrt(3)*I/2
CubeRoot(sign) ==
    <<"-", "1", "/", "2", " ", sign, " ", "s", "q", "r", "t", "(", "3", ")", "*", "I",
      "/", "2">>

\* sympy.solve(sympify(expr_str), Symbol(var_str)): the list of solutions
SympySolve(expr_str, var_str) ==
    IF expr_str = <<"x", "*", "*", "2", " ", "-", " ", "5", "*", "x", " ", "+", " ", "6">>
       /\ var_str = <<"x">>
    THEN [ok |-> TRUE, solutions |-> <<Real(2), Real(3)>>]
    ELSE IF expr_str = <<"x", "*", "*", "3", " ", "-", " ", "1">> /\ var_str = <<"x">>
    THEN [ok |-> TRUE,
          solutions |-> <<Real(1),
                          [kind |-> "nonreal", m |-> 0, text |-> CubeRoot("-")],
                          [kind |-> "nonreal", m |-> 0, text |-> CubeRoot("+")]>>]
    ELSE [ok |-> FALSE, unmodelled |-> TRUE]

\* sympy.solve(Eq(sympify(left), sympify(right)), its free symbol)
SympySolveEq(left, right) ==
    IF left = <<"x", " ", "+", " ", "1">> /\ right = <<"3">>
    THEN [ok |-> TRUE, solutions |-> <<Real(2)>>]
    ELSE IF left = <<"x">> /\ right = <<"2">>
    THEN [ok |-> TRUE, solutions |-> <<Real(2)>>]
    ELSE [ok |-> FALSE, unmodelled |-> TRUE]

Raise(msg) == [ok |-> FALSE, unmodelled |-> FALSE, msg |-> msg]

\* EquationSolver._parse_solve_manually:
\* re.match(r'solve\(([^,]+),\s*([^)]+)\)', equation_str.strip())
ParseSolveManually(equation_str) ==
    LET t == Strip(equation_str)
        comma == Find(t, <<",">>)                      \* [^,]+ ends at the first ','
        close == IF comma = 0 THEN 0 ELSE FindFrom(t, <<")">>, comma + 1)
        expr_str == Strip(Slice(t, 7, comma - 1))
        var_str == Strip(Slice(t, comma + 1, close - 1))
    IN  IF StartsWith(t, <<"s", "o", "l", "v", "e", "(">>) /\ comma > 7 /\ close > comma + 1
        THEN SympySolve(ReplaceChar(expr_str, "^", <<"*", "*">>), var_str)
        ELSE Raise(<<"[solve]", "[geshi]", ":", " ">> \o equation_str)

\* EquationSolver._handle_equation_with_equals
HandleEquationWithEquals(equation_str) ==
    LET parts == Split(equation_str, "=")
    IN  IF Len(parts) # 2 THEN Raise(<<"[geshi]">>)
        ELSE SympySolveEq(Strip(parts[1]), Strip(parts[2]))

\* EquationSolver._solve_with_sympy
SolveWithSympy(equation_str) ==
    IF Contains(Lower(equation_str), <<"s", "o", "l", "v", "e", "(">>)
    THEN LET r == ParseSolveManually(ReplaceChar(equation_str, "^", <<"*", "*">>))
         IN  IF r.ok \/ r.unmodelled THEN r
             ELSE Raise(<<"s", "o", "l", "v", "e", "[qiujie]", ":", " ">> \o r.msg)
    ELSE IF Contains(equation_str, <<"=">>) THEN HandleEquationWithEquals(equation_str)
    ELSE Raise(<<"[geshi]", ":", " ">> \o equation_str)

\* the text one solution is formatted as, after prefix ("x = ", "x[i] = ")
FormatSolution(prefix, solution) ==
    IF solution.kind = "symbolic" THEN prefix \o solution.text
    ELSE IF solution.kind = "real"
         THEN IF IsInteger(solution.m) THEN prefix \o IntStr(solution.m \div Scale)
              ELSE prefix \o FloatStr(solution.m)
    ELSE prefix \o solution.text

RECURSIVE JoinComma(_)
JoinComma(parts) ==
    IF parts = <<>> THEN <<>>
    ELSE IF Len(parts) = 1 THEN parts[1]
    ELSE parts[1] \o <<",", " ">> \o JoinComma(Tail(parts))

\* EquationSolver._format_solutions
FormatSolutions(solutions) ==
    IF solutions = <<>> THEN <<"WUJIE">>
    ELSE IF Len(solutions) = 1
         THEN IF solutions[1].kind = "symbolic" THEN solutions[1].text
              ELSE FormatSolution(<<"x", " ", "=", " ">>, solutions[1])
    ELSE JoinComma([i \in 1..Len(solutions) |->
                      FormatSolution(<<"x", "[">> \o NatStr(i - 1) \o <<"]", " ", "=", " ">>,
                                     solutions[i])])

\* EquationSolver.solve_equation after _solve_with_sympy: the result text
SolveResult(r) ==
    IF r.ok THEN PyStr(FormatSolutions(r.solutions))
    ELSE IF r.unmodelled THEN Unmodelled
    ELSE PyStr(ErrPrefix \o <<"[qiujie]", " ", "-", " ">> \o r.msg)

\* sympy.solve(equations, symbol_vars) for the systems of the model.  The
\* equations are <<left, right>> pairs.  The answer is a dict (shape "dict",
\* items: [k: symbol, v: solution]) or a list (shape "list") of tuples
\* ([tuple |-> TRUE, vals]) and dicts ([tuple |-> FALSE, items]).
SympySolveSystem(variables, equations) ==
    IF equations = << <<(<<"x", "+", "y">>), (<<"5">>)>>, <<(<<"x", "-", "y">>), (<<"1">>)>> >>
       /\ variables \in {<<(<<"x">>), (<<"y">>)>>, <<(<<"y">>), (<<"x">>)>>}
    THEN [ok |-> TRUE, shape |-> "dict",
          items |-> <<[k |-> <<"x">>, v |-> Real(3)], [k |-> <<"y">>, v |-> Real(2)]>>]
    ELSE IF equations = << <<(<<"x", "+", "y">>), (<<"5">>)>>, <<(<<"x", "*", "y">>), (<<"6">>)>> >>
            /\ variables = <<(<<"x">>), (<<"y">>)>>
    THEN [ok |-> TRUE, shape |-> "list",
          list |-> <<[tuple |-> TRUE, vals |-> <<Real(2), Real(3)>>],
                     [tuple |-> TRUE, vals |-> <<Real(3), Real(2)>>]>>]
    ELSE [ok |-> FALSE, unmodelled |-> TRUE]

\* [x.strip() for x in s.split(sep)]
SplitStrip(s, sep) == [i \in 1..Len(Split(s, sep)) |-> Strip(Split(s, sep)[i])]

\* ", ".join / "; ".join
RECURSIVE Join(_, _)
Join(parts, sep) ==
    IF parts = <<>> THEN <<>>
    ELSE IF Len(parts) = 1 THEN parts[1]
    ELSE parts[1] \o sep \o Join(Tail(parts), sep)

\* the parts of result_parts that were appended (an empty text marks a
\* variable that was skipped)
RECURSIVE Appended(_)
Appended(parts) ==
    IF parts = <<>> THEN <<>>
    ELSE IF parts[1] = <<>> THEN Appended(Tail(parts))
    ELSE <<parts[1]>> \o Appended(Tail(parts))

\* _solve_equation_system for one assignment (a dict): "var = value" for the
\* variables the dict holds, joined with ", "
FormatSingleSystem(items, variables) ==
    Join(Appended([i \in 1..Len(variables) |->
                      IF DictHas(items, variables[i])
                      THEN FormatSolution(variables[i] \o <<" ", "=", " ">>,
                                          DictGet(items, variables[i]))
                      ELSE <<>>]),
         <<",", " ">>)

\* the values of variable var_idx in the solutions, as texts
RECURSIVE VarSolutions(_, _, _)
VarSolutions(solutions, variables, var_idx) ==
    IF solutions = <<>> THEN <<>>
    ELSE LET solution == solutions[1]
             var == variables[var_idx]
             here == IF solution.tuple
                     THEN IF Len(solution.vals) = Len(variables)
                          THEN <<FormatSolution(<<>>, solution.vals[var_idx])>>
                          ELSE <<>>
                     ELSE IF DictHas(solution.items, var)
                          THEN <<FormatSolution(<<>>, DictGet(solution.items, var))>>
                          ELSE <<>>
         IN  here \o VarSolutions(Tail(solutions), variables, var_idx)

\* the segment of one variable: "var = v" or "var[0] = v0, var[1] = v1, ..."
VarSegment(var, var_solutions) ==
    IF var_solutions = <<>> THEN <<>>
    ELSE IF Len(var_solutions) = 1 THEN var \o <<" ", "=", " ">> \o var_solutions[1]
    ELSE Join([i \in 1..Len(var_solutions) |->
                  var \o <<"[">> \o NatStr(i - 1) \o <<"]", " ", "=", " ">> \o var_solutions[i]],
              <<",", " ">>)

\* EquationSolver._format_multi_solution_system
FormatMultiSolutionSystem(solutions, variables) ==
    Join(Appended([i \in 1..Len(variables) |->
                      VarSegment(variables[i], VarSolutions(solutions, variables, i))]),
         <<";", " ">>)

\* _solve_equation_system once the backend has answered: the result text
FormatSystem(solved, variables) ==
    IF solved.shape = "dict" THEN FormatSingleSystem(solved.items, variables)
    ELSE IF solved.list = <<>> THEN <<"WUJIE">>
    ELSE IF Len(solved.list) = 1 /\ ~solved.list[1].tuple
         THEN FormatSingleSystem(solved.list[1].items, variables)
    ELSE FormatMultiSolutionSystem(solved.list, variables)

\* "l=r".split('=', 1), each side stripped and '^' replaced
EquationSides(eq_str) ==
    <<ReplaceChar(Strip(Slice(eq_str, 1, Find(eq_str, <<"=">>) - 1)), "^", <<"*", "*">>),
      ReplaceChar(Strip(Slice(eq_str, Find(eq_str, <<"=">>) + 1, Len(eq_str))),
                  "^", <<"*", "*">>)>>

\* the backend's answer formatted, or the ValueError raised
SystemSolved(solved, variables) ==
    IF solved.ok THEN [ok |-> TRUE, text |-> FormatSystem(solved, variables)]
    ELSE solved

\* EquationSolver._solve_equation_system: [ok, text], or what it raises
SolveEquationSystem(var_part, eq_part) ==
    LET variables == SplitStrip(var_part, ",")
        equation_strs == SplitStrip(eq_part, ",")
    IN  IF \E i \in 1..Len(equation_strs) : ~Contains(equation_strs[i], <<"=">>)
        THEN Raise(<<"[fangchengzu]", ":", " ", "[queshao-denghao]">>)
        ELSE SystemSolved(SympySolveSystem(variables,
                              [i \in 1..Len(equation_strs) |-> EquationSides(equation_strs[i])]),
                          variables)

\* EquationSolver.solve_equation after _solve_equation_system: the result text
SystemResult(r) ==
    IF r.ok THEN PyStr(r.text)
    ELSE IF r.unmodelled THEN Unmodelled
    ELSE PyStr(ErrPrefix \o <<"[qiujie]", " ", "-", " ">> \o r.msg)

\* the result of solve_equation without the backend
NoSympy == PyStr(ErrPrefix \o <<"[xuyao-sympy]">>)

\* solve_equation without the test of the backend
SolveUnchecked(equation_str) ==
    IF IsSystemForm(equation_str)
    THEN SystemResult(SolveEquationSystem(VarPart(equation_str), EqPart(equation_str)))
    ELSE SolveResult(SolveWithSympy(PreprocessEquation(equation_str)))

\* EquationSolver.solve_equation
SolveEquation(equation_str) ==
    IF ~sympy_available THEN NoSympy
    ELSE IF IsSystemForm(equation_str)
         THEN SystemResult(SolveEquationSystem(VarPart(equation_str), EqPart(equation_str)))
    ELSE SolveResult(SolveWithSympy(PreprocessEquation(equation_str)))

----------------------------------------------------------------------------
(* TextEditorComponent: evaluation of a line *)

\* an evaluation that stores nothing for a line that ends in an error
DropErrors(res, line_number, parsed, is_eq) ==
    IF parsed.is_empty
       \/ StartsWith(parsed.expression, <<"CUOWU">>)
    THEN res
    ELSE StoreResult(res, line_number, parsed.original,
                     IF is_eq THEN SolveEquation(parsed.expression)
                     ELSE Calculate(parsed.expression),
                     is_eq)

\* TextEditorComponent._calculate_line after parse_expression
CalculateParsed(res, line_number, parsed, is_eq) ==
    IF parsed.is_empty THEN res
    ELSE StoreResult(res, line_number, parsed.original,
                     IF is_eq THEN SolveEquation(parsed.expression)
                     ELSE Calculate(parsed.expression),
                     is_eq)

\* TextEditorComponent._calculate_line: the new results
CalculateLine(res, line_number, line_content) ==
    CalculateParsed(res, line_number, ParseExpression(line_content, res),
                    is_equation(ParseExpression(line_content, res).expression))

\* one turn of the loop of calculate_all_lines: blank lines are skipped
PassLine(res, line_num, line_content) ==
    IF Strip(line_content) # <<>> THEN CalculateLine(res, line_num, line_content) ELSE res

\* the loop of calculate_all_lines from line line_num on: the new results
RECURSIVE PassFrom(_, _, _)
PassFrom(res, doc, line_num) ==
    IF line_num > Len(doc) THEN res
    ELSE PassFrom(PassLine(res, line_num, doc[line_num]), doc, line_num + 1)

----------------------------------------------------------------------------
(* TextEditorComponent: renumbering.  The loops run over a copy of the      *)
(* store and write into the emptied store; the model takes the keys in      *)
(* increasing order (a later write to the same key would replace an         *)
(* earlier one, as in the dict).                                            *)

Min(S) == CHOOSE x \in S : \A y \in S : x <= y

\* the loop of _handle_lines_inserted over the keys todo of all_results
RECURSIVE InsertLoop(_, _, _, _, _)
InsertLoop(all_results, todo, insert_position, insert_count, acc) ==
    IF todo = {} THEN acc
    ELSE LET old_line_num == Min(todo)
             result_data == all_results[old_line_num]
             new_line_num == old_line_num + insert_count
         IN  InsertLoop(all_results, todo \ {old_line_num}, insert_position, insert_count,
                        IF old_line_num >= insert_position
                        THEN Put(acc, new_line_num,
                                 [result_data EXCEPT !.line_number = new_line_num])
                        ELSE Put(acc, old_line_num, result_data))

\* an insertion that takes insert_position as the line the new lines follow
InsertedAfter(res, insert_position, insert_count) ==
    InsertLoop(res, DOMAIN res, insert_position + 1, insert_count, EmptyStore)

\* an insertion that moves the entries and leaves their line_number as it was
InsertedStale(res, insert_position, insert_count) ==
    [n \in {IF o >= insert_position THEN o + insert_count ELSE o : o \in DOMAIN res} |->
        IF n - insert_count \in DOMAIN res /\ n - insert_count >= insert_position
        THEN res[n - insert_count] ELSE res[n]]

\* TextEditorComponent._handle_lines_inserted: the new results
HandleLinesInserted(res, insert_position, insert_count) ==
    InsertLoop(res, DOMAIN res, insert_position, insert_count, EmptyStore)

\* the loop of _handle_lines_deleted over the keys todo of all_results
RECURSIVE DeleteLoop(_, _, _, _, _)
DeleteLoop(all_results, todo, delete_position, delete_count, acc) ==
    IF todo = {} THEN acc
    ELSE LET old_line_num == Min(todo)
             result_data == all_results[old_line_num]
             new_line_num == old_line_num - delete_count
         IN  DeleteLoop(all_results, todo \ {old_line_num}, delete_position, delete_count,
                        IF old_line_num <= delete_position
                        THEN Put(acc, old_line_num, result_data)
                        ELSE IF old_line_num > delete_position + delete_count
                             THEN Put(acc, new_line_num,
                                      [result_data EXCEPT !.line_number = new_line_num])
                        ELSE acc)

\* a deletion that takes delete_position as the first line deleted
DeletedFrom(res, delete_position, delete_count) ==
    DeleteLoop(res, DOMAIN res, delete_position - 1, delete_count, EmptyStore)

\* a deletion that moves every entry after delete_position and drops none:
\* an entry that moves takes the key of one that stays
DeletedInPlace(res, delete_position, delete_count) ==
    [n \in {IF o > delete_position THEN o - delete_count ELSE o : o \in DOMAIN res} |->
        IF n + delete_count \in DOMAIN res /\ n + delete_count > delete_position
        THEN [res[n + delete_count] EXCEPT !.line_number = n]
        ELSE res[n]]

\* TextEditorComponent._handle_lines_deleted: the new results
HandleLinesDeleted(res, delete_position, delete_count) ==
    DeleteLoop(res, DOMAIN res, delete_position, delete_count, EmptyStore)

----------------------------------------------------------------------------
(* FileManager.  A document is the text of the editor (the lines joined     *)
(* with newlines) and the store; a file holds what json.dump writes.        *)

\* a Python list
PyList(vs) == [t |-> "list", items |-> vs]

\* json.dump cannot write the value (a function object)
NotSerializable(v) == v.t = "func"

\* a value after json.dump and json.load: a tuple comes back as a list
JsonRoundTrip(v) == IF v.t = "tuple" THEN PyList(v.items) ELSE v

\* FileManager._prepare_content_data: one record per line of the content
PrepareContentData(content, res) ==
    LET doc == Split(content, "\n")
    IN  [line_num \in 1..Len(doc) |->
            [line |-> line_num,
             text |-> doc[line_num],
             result |-> IF line_num \in DOMAIN res
                        THEN <<[expression |-> res[line_num].expression,
                                result |-> res[line_num].result,
                                result_type |-> res[line_num].result_type,
                                is_equation |-> res[line_num].is_equation,
                                solutions |-> res[line_num].solutions]>>
                        ELSE <<>>]]

\* the records as json.load reads them back
Reloaded(content_data) ==
    [i \in 1..Len(content_data) |->
        [content_data[i] EXCEPT
            !.result = IF content_data[i].result = <<>> THEN <<>>
                       ELSE <<[content_data[i].result[1] EXCEPT
                                  !.result = JsonRoundTrip(content_data[i].result[1].result)]>>]]

\* the results dict of _parse_content_data for the records from i on
RECURSIVE ParsedResults(_, _, _)
ParsedResults(content_data, i, acc) ==
    IF i > Len(content_data) THEN acc
    ELSE LET line_data == content_data[i]
             result_info == line_data.result[1]
         IN  ParsedResults(content_data, i + 1,
                 IF line_data.result = <<>> THEN acc
                 ELSE Put(acc, line_data.line,
                          [ResultData(line_data.line, result_info.expression,
                                      result_info.result, result_info.result_type,
                                      result_info.is_equation)
                              EXCEPT !.solutions = result_info.solutions]))

\* FileManager._parse_content_data: the content and the results
ParseContentData(content_data) ==
    [content |-> Join([i \in 1..Len(content_data) |-> content_data[i].text], <<"\n">>),
     results |-> ParsedResults(content_data, 1, EmptyStore)]

\* save_calculator_document, then load_calculator_document of the file:
\* [ok, content, results], or the exception of the save
SaveAndLoad(content, res) ==
    IF \E n \in DOMAIN res : n <= Len(Split(content, "\n")) /\ NotSerializable(res[n].result)
    THEN [ok |-> FALSE, content |-> <<>>, results |-> EmptyStore]
    ELSE LET loaded == ParseContentData(Reloaded(PrepareContentData(content, res)))
         IN  [ok |-> TRUE, content |-> loaded.content, results |-> loaded.results]

\* str(result) of a tuple
TupleStr(items) ==
    <<"(">> \o JoinComma([i \in 1..Len(items) |-> Str(items[i])])
        \o (IF Len(items) = 1 THEN <<",", ")">> ELSE <<")">>)

\* FileManager._format_result_for_export
FormatResultForExport(result) ==
    IF IsReal(result)
    THEN IF result.t = "float" /\ IsInteger(result.re) THEN IntStr(result.re \div Scale)
         ELSE IF result.t = "float" THEN FloatStr(result.re)
         ELSE Str(result)
    ELSE IF result.t = "tuple" THEN TupleStr(result.items)
    ELSE Str(result)

\* an export that adds the result of every entry, Error entries too
ExportEveryEntry(content, res) ==
    LET doc == Split(content, "\n")
    IN  Join([line_num \in 1..Len(doc) |->
                 IF line_num \in DOMAIN res
                 THEN doc[line_num] \o <<" ", " ", "=", " ">>
                          \o FormatResultForExport(res[line_num].result)
                 ELSE doc[line_num]],
             <<"\n">>)

\* FileManager.export_to_text
ExportToText(content, res) ==
    LET doc == Split(content, "\n")
    IN  Join([line_num \in 1..Len(doc) |->
                 IF line_num \in DOMAIN res /\ res[line_num].result_type # "error"
                 THEN doc[line_num] \o <<" ", " ", "=", " ">>
                          \o FormatResultForExport(res[line_num].result)
                 ELSE doc[line_num]],
             <<"\n">>)

----------------------------------------------------------------------------
(* The texts of the model *)

T_seven == <<"7">>                                                     \* 7
T_xeq == <<"x", "=", "2">>                                             \* x=2
T_sum == <<"2", " ", "+", " ", "3">>                                   \* 2 + 3
T_linear == <<"x", " ", "+", " ", "1", " ", "=", " ", "3">>            \* x + 1 = 3

T_half == <<"7", "/", "2">>                                            \* 7/2
T_complex == <<"1", "+", "2", "j">>                                    \* 1+2j
T_divzero == <<"1", "/", "0">>                                         \* 1/0
T_blank == <<" ">>
T_comment == <<"#", " ", "c">>                                         \* # c
T_quadratic ==                                           \* solve(x^2 - 5*x + 6, x)
    <<"s", "o", "l", "v", "e", "(", "x", "^", "2", " ", "-", " ", "5", "*", "x",
      " ", "+", " ", "6", ",", " ", "x", ")">>
T_ref == <<"@", "1">>                                                  \* @1
T_double == <<"@", "1", " ", "*", " ", "2">>                           \* @1 * 2
T_ref0 == <<"@", "1", ".", "0">>                                       \* @1.0
T_ref1 == <<"@", "1", ".", "1">>                                       \* @1.1
T_ref2 == <<"@", "1", ".", "2">>                                       \* @1.2
T_refsum == <<"@", "1", ".", "0", " ", "+", " ", "@", "1", ".", "1">>  \* @1.0 + @1.1

T_system ==                                                 \* x,y:x+y=5,x-y=1
    <<"x", ",", "y", ":", "x", "+", "y", "=", "5", ",", "x", "-", "y", "=", "1">>
T_system_yx ==                                              \* y,x:x+y=5,x-y=1
    <<"y", ",", "x", ":", "x", "+", "y", "=", "5", ",", "x", "-", "y", "=", "1">>
T_system2 ==                                                \* x,y:x+y=5,x*y=6
    <<"x", ",", "y", ":", "x", "+", "y", "=", "5", ",", "x", "*", "y", "=", "6">>

T_syntax == <<"2", " ", "+">>                                          \* 2 +
T_name == <<"f", "o", "o">>                                            \* foo
T_badsolve == <<"s", "o", "l", "v", "e", "(", "x", ")">>               \* solve(x)
T_tuple == <<"(", "1", ",", "2", ")">>                                 \* (1,2)
T_cubic ==                                                   \* solve(x^3 - 1, x)
    <<"s", "o", "l", "v", "e", "(", "x", "^", "3", " ", "-", " ", "1", ",", " ", "x", ")">>
\* @1.V.S
TripleRef(V, S) == <<"@", "1", ".">> \o NatStr(V) \o <<".">> \o NatStr(S)
SystemTexts == {T_system, T_system_yx, T_system2}
TripleTexts == {TripleRef(V, S) : V \in 0..MaxIndex, S \in 0..MaxIndex}

T_at2 == <<"@", "2">>                                                  \* @2
T_at3 == <<"@", "3">>                                                  \* @3

\* the lines of the documents, and the documents
PassTexts == {T_seven, T_blank, T_comment, T_at2, T_at3}
Docs == [1..NumLines -> PassTexts]

\* lines that evaluate to a value and lines that fail: division by zero,
\* syntax, unknown name, reference, solver
ErrorTexts == {T_sum, T_divzero, T_syntax, T_name, T_at2, T_badsolve}

\* the lines typed in the renumbering specification
StoreTexts == {T_seven, T_xeq}
\* the lines typed where lines are evaluated one at a time: line 1 holds a
\* value, an equation, an error or nothing, the lines after it refer to it
SourceTexts == {T_sum, T_half, T_complex, T_divzero, T_quadratic, T_linear,
                T_blank, T_comment}
RefTexts == {T_ref, T_double, T_ref0, T_ref1, T_ref2, T_refsum, T_blank, T_comment}
EvalTexts(n) == IF n = 1 THEN SourceTexts ELSE RefTexts

----------------------------------------------------------------------------
(* The store under edits: lines are evaluated one at a time, results are    *)
(* cleared, and lines are inserted and deleted                              *)

Op(op, a, b, text) == [op |-> op, a |-> a, b |-> b, text |-> text]
NoUndo == [matched |-> FALSE, before |-> EmptyStore]
NoOut == [ok |-> FALSE, msg |-> <<>>]
NoRet == [f |-> "none", arg |-> <<>>, val |-> None]

Init ==
    /\ results = EmptyStore
    /\ lines = <<>>
    /\ pass_line = 0
    /\ out = NoOut
    /\ lastOp = Op("init", 0, 0, <<>>)
    /\ prev = EmptyStore
    /\ undo = NoUndo
    /\ sympy_available = TRUE
    /\ ret = NoRet

\* what resolve_line_references returns, or raises, in parse_expression
\* (nothing for a blank or comment-only text: it is not called)
Resolved(text, res) ==
    IF Strip(RemoveComments(Strip(text))) = <<>> THEN NoOut
    ELSE ResolveLineReferences(RemoveComments(Strip(text)), res)

\* no number of the store is beyond the magnitude the model follows
Bounded(res) ==
    \A n \in DOMAIN res :
        IsNum(res[n].result) => Abs(res[n].result.re) <= MaxVal * Scale

\* calculate_current_line with the cursor on line n, which reads text
CalculateCurrentLine(n, text) ==
    /\ pass_line = 0
    /\ Cardinality(DOMAIN results \cup {n}) <= MaxEntries
    /\ results' = CalculateLine(results, n, text)
    /\ Bounded(results')
    /\ out' = Resolved(text, results)
    /\ lastOp' = Op("calc", n, 0, text)
    /\ prev' = results
    /\ undo' = NoUndo
    /\ UNCHANGED <<lines, pass_line, sympy_available, ret>>

\* clear_results of the editor: remove_result for the cursor's line n
ClearLineResult(n) ==
    /\ pass_line = 0
    /\ results' = RemoveResult(results, n)
    /\ lastOp' = Op("remove", n, 0, <<>>)
    /\ prev' = results
    /\ undo' = NoUndo
    /\ UNCHANGED <<lines, pass_line, out, sympy_available, ret>>

\* clear_all_results
ClearAllResults ==
    /\ pass_line = 0
    /\ results' = ClearResults(results)
    /\ lastOp' = Op("clear", 0, 0, <<>>)
    /\ prev' = results
    /\ undo' = NoUndo
    /\ UNCHANGED <<lines, pass_line, out, sympy_available, ret>>

\* replace_reference of _update_text_references_after_insert for the match
\* matched: its line number line_ref, its index part indexes (".i" or ".i.j")
InsertReplacement(line_ref, indexes, matched, insert_line, lines_added) ==
    IF line_ref >= insert_line
    THEN <<"@">> \o NatStr(line_ref + lines_added) \o indexes
    ELSE matched

\* replace_reference of _update_text_references_after_delete
DeleteReplacement(line_ref, indexes, matched, delete_line, lines_deleted) ==
    IF line_ref < delete_line THEN matched
    ELSE IF line_ref >= delete_line /\ line_ref < delete_line + lines_deleted
         THEN <<"@", "I", "N", "V", "A", "L", "I", "D", "_">> \o NatStr(line_ref)
    ELSE <<"@">> \o NatStr(line_ref - lines_deleted) \o indexes

\* re.sub(pattern, replace_reference, content) from position p on, for the
\* pattern @(\d+)(?:\.(\d+)(?:\.(\d+))?)? : the matches are taken left to
\* right and the replacement text is not scanned again
RECURSIVE SubTextReferences(_, _, _, _, _)
SubTextReferences(s, p, edit, line, count) ==
    IF p > Len(s) THEN <<>>
    ELSE IF s[p] = "@" /\ p < Len(s) /\ s[p + 1] \in Digits
         THEN LET e == RunEnd(s, p + 1, Digits)
                  hasFirst == e + 2 <= Len(s) /\ s[e + 1] = "." /\ s[e + 2] \in Digits
                  f == IF hasFirst THEN RunEnd(s, e + 2, Digits) ELSE e
                  hasSecond == hasFirst /\ f + 2 <= Len(s)
                                   /\ s[f + 1] = "." /\ s[f + 2] \in Digits
                  g == IF hasSecond THEN RunEnd(s, f + 2, Digits) ELSE f
                  line_ref == ParseNat(SubSeq(s, p + 1, e))
                  indexes == SubSeq(s, e + 1, g)
                  matched == SubSeq(s, p, g)
              IN  (IF edit = "insert"
                   THEN InsertReplacement(line_ref, indexes, matched, line, count)
                   ELSE DeleteReplacement(line_ref, indexes, matched, line, count))
                  \o SubTextReferences(s, g + 1, edit, line, count)
    ELSE <<s[p]>> \o SubTextReferences(s, p + 1, edit, line, count)

\* _update_text_references_after_insert on the editor's lines (no match
\* crosses a line end: the pattern matches no newline)
UpdateTextReferencesAfterInsert(content, insert_line, lines_added) ==
    [i \in 1..Len(content) |->
        SubTextReferences(content[i], 1, "insert", insert_line, lines_added)]

\* _update_text_references_after_delete on the editor's lines
UpdateTextReferencesAfterDelete(content, delete_line, lines_deleted) ==
    [i \in 1..Len(content) |->
        SubTextReferences(content[i], 1, "delete", delete_line, lines_deleted)]

\* the line numbers the references of the text s name
References(s) ==
    {ParseNat(SubSeq(s, p + 1, RunEnd(s, p + 1, Digits))) :
        p \in {q \in 1..(Len(s) - 1) : s[q] = "@" /\ s[q + 1] \in Digits}}

\* handle_line_count_change for lines_added new lines at the cursor's line:
\* the store is renumbered by _handle_lines_inserted, then the references of
\* the editor's text by _update_text_references_after_insert.  lastOp.text
\* keeps the text the handler read.
LinesInserted(change_line, lines_added) ==
    /\ pass_line = 0
    /\ \A key \in DOMAIN results : key >= change_line => key + lines_added <= MaxLine
    /\ results' = HandleLinesInserted(results, change_line, lines_added)
    /\ lines' = UpdateTextReferencesAfterInsert(lines, change_line, lines_added)
    /\ \A i \in 1..Len(lines') : \A line_ref \in References(lines'[i]) : line_ref <= MaxLine
    /\ lastOp' = Op("insert", change_line, lines_added, Join(lines, <<"\n">>))
    /\ prev' = results
    /\ undo' = NoUndo
    /\ UNCHANGED <<pass_line, out, sympy_available, ret>>

\* handle_line_count_change for lines_deleted lines less at the cursor's line:
\* the store is renumbered by _handle_lines_deleted, then the references of
\* the editor's text by _update_text_references_after_delete
LinesDeleted(change_line, lines_deleted) ==
    /\ pass_line = 0
    /\ results' = HandleLinesDeleted(results, change_line, lines_deleted)
    /\ lines' = UpdateTextReferencesAfterDelete(lines, change_line, lines_deleted)
    /\ lastOp' = Op("delete", change_line, lines_deleted, Join(lines, <<"\n">>))
    /\ prev' = results
    /\ undo' = IF lastOp.op = "insert" /\ lastOp.a = change_line /\ lastOp.b = lines_deleted
               THEN [matched |-> TRUE, before |-> prev]
               ELSE NoUndo
    /\ UNCHANGED <<pass_line, out, sympy_available, ret>>

Next ==
    \/ \E n \in 1..MaxLine, text \in StoreTexts : CalculateCurrentLine(n, text)
    \/ \E n \in 1..MaxLine : ClearLineResult(n)
    \/ ClearAllResults
    \/ \E p \in 1..MaxLine, k \in 1..MaxCount : LinesInserted(p, k)
    \/ \E p \in 1..MaxLine, k \in 1..MaxCount : LinesDeleted(p, k)

Spec == Init /\ [][Next]_vars

\* Lines evaluated one at a time: line 1 holds a source text, the lines
\* after it the texts that refer to line 1
NextEval ==
    \/ \E n \in 1..EvalLines : \E text \in EvalTexts(n) : CalculateCurrentLine(n, text)
    \/ \E n \in 1..EvalLines : ClearLineResult(n)

SpecEval == Init /\ [][NextEval]_vars

\* calculate_all_lines on the document doc, up to its loop: the store is
\* cleared.  lastOp.b keeps the number of entries the store held.
StartPass(doc) ==
    /\ pass_line = 0
    /\ results' = ClearResults(results)
    /\ lines' = doc
    /\ pass_line' = 1
    /\ lastOp' = Op("start", 0, Cardinality(DOMAIN results), <<>>)
    /\ prev' = results
    /\ undo' = NoUndo
    /\ UNCHANGED <<out, sympy_available, ret>>

\* one turn of the loop of calculate_all_lines
PassStep ==
    /\ pass_line >= 1 /\ pass_line <= Len(lines)
    /\ results' = PassLine(results, pass_line, lines[pass_line])
    /\ pass_line' = pass_line + 1
    /\ out' = Resolved(lines[pass_line], results)
    /\ lastOp' = Op("step", pass_line, lastOp.b, lines[pass_line])
    /\ prev' = results
    /\ UNCHANGED <<lines, undo, sympy_available, ret>>

\* calculate_all_lines after its loop: the display is refreshed and it returns
EndPass ==
    /\ pass_line = Len(lines) + 1
    /\ pass_line' = 0
    /\ lines' = <<>>
    /\ lastOp' = Op("end", 0, 0, <<>>)
    /\ prev' = results
    /\ UNCHANGED <<results, out, undo, sympy_available, ret>>

\* Passes over documents, with single lines evaluated between them
NextPass ==
    \/ \E doc \in Docs : StartPass(doc)
    \/ PassStep
    \/ EndPass
    \/ \E n \in 1..NumLines : CalculateCurrentLine(n, T_seven)

SpecPass == Init /\ [][NextPass]_vars

\* An equation system on line 1 and three-part references to it on line 2
NextTriple ==
    \/ \E text \in SystemTexts : CalculateCurrentLine(1, text)
    \/ \E text \in TripleTexts : CalculateCurrentLine(2, text)
    \/ ClearLineResult(1)

SpecTriple == Init /\ [][NextTriple]_vars

\* ResultManager.get_result, called with a line, a solution index and a
\* variable index (NoIndex: the argument is left out)
GetResultQuery(line_number, solution_index, variable_index) ==
    /\ pass_line = 0
    /\ ret' = [f |-> "get_result",
               arg |-> <<line_number, solution_index, variable_index>>,
               val |-> GetResult(results, line_number, solution_index, variable_index)]
    /\ lastOp' = Op("get", line_number, 0, <<>>)
    /\ prev' = results
    /\ UNCHANGED <<results, lines, pass_line, out, undo, sympy_available>>

\* Equations and systems on line 1, and queries of the store
NextQuery ==
    \/ \E text \in SystemTexts \cup {T_linear, T_divzero} : CalculateCurrentLine(1, text)
    \/ ClearLineResult(1)
    \/ \E L \in 1..2, S \in NoIndex..MaxIndex, V \in NoIndex..MaxIndex :
          GetResultQuery(L, S, V)

SpecQuery == Init /\ [][NextQuery]_vars

\* Values, equations, a system and a failing line on line 1, and queries of
\* the store
ReadTexts == {T_seven, T_half, T_system, T_divzero, T_quadratic, T_cubic}
NextRead ==
    \/ \E text \in ReadTexts : CalculateCurrentLine(1, text)
    \/ ClearLineResult(1)
    \/ \E L \in 1..2, S \in NoIndex..MaxIndex, V \in NoIndex..MaxIndex :
          GetResultQuery(L, S, V)

SpecRead == Init /\ [][NextRead]_vars

\* the texts around an operand tok:  tok^2,  tok * 2,  2 - tok,  2*tok^2
Surround(i, tok) ==
    CASE i = 1 -> tok \o <<"^", "2">>
      [] i = 2 -> tok \o <<" ", "*", " ", "2">>
      [] i = 3 -> <<"2", " ", "-", " ">> \o tok
      [] OTHER -> <<"2", "*">> \o tok \o <<"^", "2">>
Surrounds == 1..4
\* 3, -3, -5/2, 7/2 and 1/0 for the line referred to
OperandTexts == {<<"3">>, <<"-", "3">>, <<"-", "5", "/", "2">>, T_half, T_divzero}

\* Line 1 holds a value, line 2 uses it as an operand
NextOperand ==
    \/ \E text \in OperandTexts : CalculateCurrentLine(1, text)
    \/ \E i \in Surrounds : CalculateCurrentLine(2, Surround(i, T_ref))
    \/ \E n \in 1..2 : ClearLineResult(n)

SpecOperand == Init /\ [][NextOperand]_vars

\* Calls of functions of safe_dict with valid arguments, and the values of
\* the functions: abs(-3), sqrt(16), sqrt(9), log10(100), log2(8)
WhitelistCalls ==
    { [text |-> <<"a", "b", "s", "(", "-", "3", ")">>, value |-> PyInt(3)],
      [text |-> <<"s", "q", "r", "t", "(", "1", "6", ")">>, value |-> PyInt(4)],
      [text |-> <<"s", "q", "r", "t", "(", "9", ")">>, value |-> PyInt(3)],
      [text |-> <<"l", "o", "g", "1", "0", "(", "1", "0", "0", ")">>, value |-> PyInt(2)],
      [text |-> <<"l", "o", "g", "2", "(", "8", ")">>, value |-> PyInt(3)] }

NextWhitelist ==
    \/ \E n \in 1..EvalLines, call \in WhitelistCalls : CalculateCurrentLine(n, call.text)
    \/ \E n \in 1..EvalLines : ClearLineResult(n)

SpecWhitelist == Init /\ [][NextWhitelist]_vars

\* The editor holds a document of values, a tuple, a failing line and an
\* equation
FileTexts == {T_seven, T_half, T_tuple, T_divzero, T_linear}
InitFile ==
    /\ lines \in [1..NumLines -> FileTexts]
    /\ results = EmptyStore
    /\ pass_line = 0
    /\ out = NoOut
    /\ lastOp = Op("init", 0, 0, <<>>)
    /\ prev = EmptyStore
    /\ undo = NoUndo
    /\ sympy_available = TRUE
    /\ ret = NoRet

\* the document is saved with save_calculator_document and the file is
\* read with load_calculator_document
SaveLoadQuery ==
    /\ pass_line = 0
    /\ ret' = [f |-> "load_calculator_document", arg |-> <<>>,
               val |-> SaveAndLoad(Join(lines, <<"\n">>), results)]
    /\ lastOp' = Op("save", 0, 0, <<>>)
    /\ prev' = results
    /\ UNCHANGED <<results, lines, pass_line, out, undo, sympy_available>>

\* export_to_text of the document and the store
ExportQuery ==
    /\ pass_line = 0
    /\ ret' = [f |-> "export_to_text", arg |-> <<>>,
               val |-> PyStr(ExportToText(Join(lines, <<"\n">>), results))]
    /\ lastOp' = Op("export", 0, 0, <<>>)
    /\ prev' = results
    /\ UNCHANGED <<results, lines, pass_line, out, undo, sympy_available>>

\* Lines of the document are evaluated, the document is saved and exported
NextFile ==
    \/ \E n \in 1..Len(lines) : CalculateCurrentLine(n, lines[n])
    \/ SaveLoadQuery
    \/ ExportQuery

SpecFile == InitFile /\ [][NextFile]_vars

\* the lines of the text the editor holds when its lines are counted: a
\* value, or a reference to a line
EditTexts == {T_seven, T_ref, T_at2}

\* the text was evaluated by calculate_all_lines
InitEdit ==
    /\ lines \in [1..EvalLines -> EditTexts]
    /\ results = PassFrom(EmptyStore, lines, 1)
    /\ pass_line = 0
    /\ out = NoOut
    /\ lastOp = Op("init", 0, 0, <<>>)
    /\ prev = EmptyStore
    /\ undo = NoUndo
    /\ sympy_available = TRUE
    /\ ret = NoRet

\* Lines are inserted and deleted in a text that was evaluated
NextEdit ==
    \/ \E p \in 1..MaxLine, k \in 1..MaxCount : LinesInserted(p, k)
    \/ \E p \in 1..MaxLine, k \in 1..MaxCount : LinesDeleted(p, k)

SpecEdit == InitEdit /\ [][NextEdit]_vars

\* Lines that fail and lines that do not, evaluated one at a time
NextError ==
    \/ \E n \in 1..2, text \in ErrorTexts : CalculateCurrentLine(n, text)
    \/ \E n \in 1..2 : ClearLineResult(n)

SpecError == Init /\ [][NextError]_vars

\* The program started with or without the backend (SYMPY_AVAILABLE is set
\* when equation_solver is imported)
InitBackend ==
    /\ results = EmptyStore
    /\ lines = <<>>
    /\ pass_line = 0
    /\ out = NoOut
    /\ lastOp = Op("init", 0, 0, <<>>)
    /\ prev = EmptyStore
    /\ undo = NoUndo
    /\ sympy_available \in BOOLEAN
    /\ ret = NoRet

\* a value, an equation, a system and a reference to line 1
BackendTexts == {T_seven, T_linear, T_system, T_double}
BackendDocs == [1..NumLines -> BackendTexts]

\* Passes and single lines, with and without the backend
NextBackend ==
    \/ \E doc \in BackendDocs : StartPass(doc)
    \/ PassStep
    \/ EndPass
    \/ \E text \in {T_linear, T_system} : CalculateCurrentLine(1, text)

SpecBackend == InitBackend /\ [][NextBackend]_vars

\* Single lines and passes with references to lines 1 and 2: values, a
\* complex value and a failing line for the lines referred to
PersistTexts == {T_seven, T_complex, T_divzero, T_ref, T_at2}
PersistDocs == [1..NumLines -> {T_seven, T_ref, T_at2}]

NextPersist ==
    \/ \E n \in 1..EvalLines, text \in PersistTexts : CalculateCurrentLine(n, text)
    \/ \E doc \in PersistDocs : StartPass(doc)
    \/ PassStep
    \/ EndPass

SpecPersist == Init /\ [][NextPersist]_vars

\* Texts for the classifier: up to MaxFragments pieces, among them the
\* characters get_expression_type looks for
Fragments ==
    { <<"s", "o", "l", "v", "e">>, <<"S", "o", "l", "v", "e">>, <<"(", "x", ")">>,
      <<"=">>, <<":">>, <<",">>, <<"x">>, <<" ">>, <<"2">> }
ClassifyTexts ==
    { Join(parts, <<>>) :
        parts \in UNION { [1..k -> Fragments] : k \in 0..MaxFragments } }

\* The editor holds one line, any of the texts for the classifier
InitClassify ==
    /\ lines \in { <<text>> : text \in ClassifyTexts }
    /\ results = EmptyStore
    /\ pass_line = 0
    /\ out = NoOut
    /\ lastOp = Op("init", 0, 0, <<>>)
    /\ prev = EmptyStore
    /\ undo = NoUndo
    /\ sympy_available = TRUE
    /\ ret = NoRet

\* get_expression_type on line n and on the line as the calculator
\* preprocesses it
ClassifyQuery(n) ==
    /\ pass_line = 0
    /\ ret' = [f |-> "get_expression_type", arg |-> lines[n],
               val |-> [t |-> "kind", kind |-> GetExpressionType(lines[n]),
                        renorm |-> GetExpressionType(PreprocessExpression(lines[n]))]]
    /\ lastOp' = Op("classify", n, 0, lines[n])
    /\ prev' = results
    /\ UNCHANGED <<results, lines, pass_line, out, undo, sympy_available>>

NextClassify == \E n \in 1..Len(lines) : ClassifyQuery(n)

SpecClassify == InitClassify /\ [][NextClassify]_vars

\* Answers of the backend for the formatters: a solution is an integer, a
\* fraction, an expression with a free symbol or a number that is not real
Half == [kind |-> "real", m |-> Scale \div 2, text |-> <<"1", "/", "2">>]
Symbolic(text) == [kind |-> "symbolic", m |-> 0, text |-> text]
NonReal == [kind |-> "nonreal", m |-> 0, text |-> <<"I">>]
SolutionValues == {Real(2), Real(3), Half, Symbolic(<<"a">>), NonReal}
SolutionLists == UNION { [1..k -> SolutionValues] : k \in 0..MaxSolutions }

\* for a system in x and y: a dict (x, y or both), or a list of tuples or
\* of one dict
SystemValues == {Real(2), Real(3), Half}
SystemDicts ==
    { <<[k |-> <<"x">>, v |-> a], [k |-> <<"y">>, v |-> b]>> : a, b \in SystemValues }
    \cup { <<[k |-> var, v |-> a]>> : var \in {<<"x">>, <<"y">>}, a \in SystemValues }
SystemTuples == { [tuple |-> TRUE, vals |-> <<a, b>>] : a, b \in SystemValues }
SystemAnswers ==
    { [ok |-> TRUE, shape |-> "dict", items |-> d] : d \in SystemDicts }
    \cup { [ok |-> TRUE, shape |-> "list", list |-> <<[tuple |-> FALSE, items |-> d]>>] :
             d \in SystemDicts }
    \cup { [ok |-> TRUE, shape |-> "list", list |-> l] :
             l \in UNION { [1..k -> SystemTuples] : k \in 0..MaxSolutions } }
SystemVariables == {<<(<<"x">>), (<<"y">>)>>, <<(<<"y">>), (<<"x">>)>>}

\* _format_solutions on an answer of the backend
FormatSolutionsQuery(solutions) ==
    /\ pass_line = 0
    /\ ret' = [f |-> "_format_solutions", arg |-> solutions,
               val |-> PyStr(FormatSolutions(solutions))]
    /\ lastOp' = Op("format", 0, 0, <<>>)
    /\ prev' = results
    /\ UNCHANGED <<results, lines, pass_line, out, undo, sympy_available>>

\* the formatting of _solve_equation_system on an answer of the backend for
\* the declared variables
FormatSystemQuery(solved, variables) ==
    /\ pass_line = 0
    /\ ret' = [f |-> "_solve_equation_system", arg |-> <<solved, variables>>,
               val |-> PyStr(FormatSystem(solved, variables))]
    /\ lastOp' = Op("format", 0, 0, <<>>)
    /\ prev' = results
    /\ UNCHANGED <<results, lines, pass_line, out, undo, sympy_available>>

NextFormat ==
    \/ \E solutions \in SolutionLists : FormatSolutionsQuery(solutions)
    \/ \E solved \in SystemAnswers, variables \in SystemVariables :
          FormatSystemQuery(solved, variables)

SpecFormat == Init /\ [][NextFormat]_vars

\* every result, solution and variable solution of the store is one the
\* model computes
NoUnmodelled ==
    \A n \in DOMAIN results :
        /\ results[n].result # Unmodelled
        /\ \A i \in 1..Len(results[n].solutions) : results[n].solutions[i] # Unmodelled
        /\ \A i \in 1..Len(results[n].variable_solutions) :
              \A j \in 1..Len(results[n].variable_solutions[i].v) :
                  results[n].variable_solutions[i].v[j] # Unmodelled

----------------------------------------------------------------------------
(* Properties of the store under edits (specification Spec) *)

\* an entry with its line_number set to n
At(entry, n) == [entry EXCEPT !.line_number = n]

Holding(res, keys, text) ==
    Cardinality({key \in DOMAIN res \cap keys : res[key].expression = text})

C3_InsertDeleteInvolution ==
    undo.matched => results = undo.before

\* C4: every entry stored under key n has line_number n, and an entry that
\* an insertion or a deletion relocates keeps its expression, result,
\* result_type, is_equation, solutions and variable_solutions.
SameContent(e, f) ==
    /\ e.expression = f.expression
    /\ e.result = f.result
    /\ e.result_type = f.result_type
    /\ e.is_equation = f.is_equation
    /\ e.solutions = f.solutions
    /\ e.variable_solutions = f.variable_solutions
C4_KeyIsLineNumber ==
    /\ \A n \in DOMAIN results : results[n].line_number = n
    /\ lastOp.op = "insert" =>
          \A key \in DOMAIN prev :
              key >= lastOp.a => SameContent(results[key + lastOp.b], prev[key])
    /\ lastOp.op = "delete" =>
          \A key \in DOMAIN prev :
              key > lastOp.a + lastOp.b => SameContent(results[key - lastOp.b], prev[key])

\* an equation's entry, with its solutions, has been relocated twice: by an
\* insertion and then by a deletion
C4_Witness ==
    /\ lastOp.op = "delete"
    /\ \E n \in DOMAIN results :
          /\ n + lastOp.b \in DOMAIN prev
          /\ n > lastOp.a
          /\ results[n].is_equation
          /\ results[n].solutions # <<>>
          /\ results[n].variable_solutions # <<>>
          /\ results[n].line_number = n
          /\ prev[n + lastOp.b].line_number = n + lastOp.b

----------------------------------------------------------------------------
(* Properties of the evaluation of one line (specification SpecEval) *)

\* the text is blank or holds a comment only
BlankOrComment(text) == Strip(RemoveComments(Strip(text))) = <<>>

\* the entry of a valid numeric expression: a number, or the text a complex
\* value is formatted as
NumericEntry(e) ==
    /\ ~e.is_equation
    /\ e.result_type # "error"
    /\ IsReal(e.result) \/ e.result.t = "str"

\* the literal a value is substituted as: a complex value in parentheses
Literal(v) == IF v.t = "str" THEN <<"(">> \o v.s \o <<")">> ELSE Str(v)

\* the index S of the reference @1.S of the text
RefIndex(text) == IF text = T_ref0 THEN 0 ELSE IF text = T_ref1 THEN 1 ELSE 2

\* C5: evaluating a single line whose text is blank or comment-only removes
\* that line's entry: afterwards the store has no entry for the line,
\* whatever entry it held before.
C5_BlankLineRemovesEntry ==
    (lastOp.op = "calc" /\ BlankOrComment(lastOp.text)) => lastOp.a \notin DOMAIN results

\* C8: when line 1 holds the entry of a valid numeric expression (integer,
\* real or complex valued), evaluating "@1" on line 2 yields an entry with
\* the same value, and "@1 * 2" one with twice a real value.
C8_ReferenceRoundTrip ==
    (lastOp.op = "calc" /\ lastOp.a = 2 /\ 1 \in DOMAIN prev
        /\ NumericEntry(prev[1])) =>
        /\ lastOp.text = T_ref =>
              /\ 2 \in DOMAIN results
              /\ results[2].result = prev[1].result
        /\ (lastOp.text = T_double /\ IsReal(prev[1].result)) =>
              /\ 2 \in DOMAIN results
              /\ results[2].result = FormatResult(Mul(prev[1].result, PyInt(2)))

\* C9: for the reference "@1": when line 1 has a single-valued result the
\* token is replaced by that value; when line 1 is an equation with several
\* solutions it is replaced by solution 0; when line 1 has no entry or an
\* Error entry the resolution fails and gives no expression.
C9_WholeLineReference ==
    (lastOp.op = "calc" /\ lastOp.text = T_ref) =>
        IF 1 \notin DOMAIN prev THEN ~out.ok
        ELSE LET e == prev[1]
             IN  /\ e.result_type = "error" => ~out.ok
                 /\ NumericEntry(e) => out.ok /\ out.s = Literal(e.result)
                 /\ (e.is_equation /\ Len(e.solutions) = 1) =>
                       out.ok /\ out.s = Str(e.solutions[1])
                 /\ (e.is_equation /\ Len(e.solutions) > 1) =>
                       out.ok /\ out.s = Str(e.solutions[1])

\* C10: for the reference "@1.S": when line 1 is an equation with n
\* solutions the token is replaced by solutions[S] for S < n and the
\* resolution fails for S >= n; when line 1 is a non-equation line, S = 0 is
\* replaced by the line's value and every S > 0 fails; with line 1 solving to
\* [2, 3], "@1.0 + @1.1" evaluates to 5.
C10_IndexedReference ==
    (lastOp.op = "calc" /\ 1 \in DOMAIN prev) =>
        LET e == prev[1]
            S == RefIndex(lastOp.text)
        IN  /\ (lastOp.text \in {T_ref0, T_ref1, T_ref2} /\ e.is_equation) =>
                  IF S < Len(e.solutions)
                  THEN out.ok /\ out.s = Str(e.solutions[S + 1])
                  ELSE ~out.ok
            /\ (lastOp.text \in {T_ref0, T_ref1, T_ref2} /\ NumericEntry(e)) =>
                  IF S = 0 THEN out.ok /\ out.s = Literal(e.result) ELSE ~out.ok
            /\ (lastOp.text = T_refsum /\ e.is_equation
                  /\ e.solutions = <<PyFloat(2 * Scale), PyFloat(3 * Scale)>>) =>
                  /\ lastOp.a \in DOMAIN results
                  /\ results[lastOp.a].result = PyInt(5)

----------------------------------------------------------------------------
(* Properties of the document pass (specification SpecPass) *)

\* the loop of the pass has ended
PassEnded == pass_line = Len(lines) + 1

\* C6: the pass clears the store and evaluates the lines in increasing
\* order: while line i is evaluated the store has entries only for lines
\* j < i, written by this pass, and when the loop ends the store has an
\* entry for exactly the lines that are neither blank nor comment-only.
C6_PassOrder ==
    /\ pass_line > 0 =>
          \A j \in DOMAIN results :
              j < pass_line /\ results[j].expression = Strip(lines[j])
    /\ lastOp.op = "step" => lastOp.a = pass_line - 1
    /\ PassEnded =>
          DOMAIN results = {i \in 1..Len(lines) : ~BlankOrComment(lines[i])}

\* a pass over a blank line, a line with a value and a comment-only line has
\* ended, and the store held an entry for every line before it
C6_Witness ==
    /\ PassEnded
    /\ lines = <<T_blank, T_seven, T_comment>>
    /\ DOMAIN results = {2}
    /\ lastOp.b = NumLines

\* the reference of the text names line i or a later line
ForwardOrSelf(text, i) == (text = T_at2 /\ 2 >= i) \/ (text = T_at3 /\ 3 >= i)
EntryAt(res, j) == IF j \in DOMAIN res THEN <<res[j]>> ELSE <<>>

\* C7: in a pass, a line that references itself or a later line ends as an
\* Error entry, whatever the store held before the pass, and every later
\* line is stored exactly as in the pass over the document without the
\* failing line.
C7_ForwardReference ==
    PassEnded =>
        \A i \in 1..Len(lines) :
            ForwardOrSelf(lines[i], i) =>
                /\ i \in DOMAIN results
                /\ results[i].result_type = "error"
                /\ \A j \in (i + 1)..Len(lines) :
                      EntryAt(results, j)
                          = EntryAt(PassFrom(EmptyStore, [lines EXCEPT ![i] = T_blank], 1), j)

\* a pass over "7", "@3", "7" has ended: line 2 is an Error entry, line 3
\* holds 7, and the store held an entry for every line before the pass
C7_Witness ==
    /\ PassEnded
    /\ lines = <<T_seven, T_at3, T_seven>>
    /\ results[2].result_type = "error"
    /\ results[3].result = PyInt(7)
    /\ lastOp.b = NumLines

----------------------------------------------------------------------------
(* Properties of references to equation systems (specification SpecTriple) *)

\* the entry of an equation-system line
SystemEntry(e) == e.is_equation /\ e.result_type # "error" /\ IsSystemForm(e.expression)

\* C11: the reference "@1.V.S" on line 2, with an equation system on line 1,
\* is replaced as a whole by the S-th value of the V-th variable of line 1,
\* and the resolution fails when V or S is out of range.
C11_ThreePartReference ==
    \A V \in 0..MaxIndex, S \in 0..MaxIndex :
        (lastOp.op = "calc" /\ lastOp.a = 2 /\ lastOp.text = TripleRef(V, S)
            /\ 1 \in DOMAIN prev /\ SystemEntry(prev[1])) =>
            LET vs == prev[1].variable_solutions
            IN  IF V < Len(vs) /\ S < Len(vs[V + 1].v)
                THEN out.ok /\ out.s = Str(vs[V + 1].v[S + 1])
                ELSE ~out.ok

----------------------------------------------------------------------------
(* Properties of the queries of the store (specification SpecQuery) *)

\* the variables an equation-system line declares, in the order of the line
Declared(expression) == SplitStrip(VarPart(expression), ",")

\* the values the backend gives variable var of the system, one for each
\* assignment, in the order of the assignments
BackendValues(expression, var) ==
    LET declared == Declared(expression)
        eqs == SplitStrip(EqPart(expression), ",")
        solved == SympySolveSystem(declared, [i \in 1..Len(eqs) |-> EquationSides(eqs[i])])
        idx == CHOOSE i \in 1..Len(declared) : declared[i] = var
    IN  IF solved.shape = "dict" THEN <<DictGet(solved.items, var)>>
        ELSE [i \in 1..Len(solved.list) |-> solved.list[i].vals[idx]]

----------------------------------------------------------------------------
(* Properties of failing lines (specification SpecError) *)

\* an Error entry carries a message after the prefix
ErrorEntry(e) ==
    /\ e.result_type = "error"
    /\ e.result.t = "str"
    /\ StartsWith(e.result.s, ErrPrefix)
    /\ Len(e.result.s) > Len(ErrPrefix)

----------------------------------------------------------------------------
(* The classifier (specification SpecClassify) *)

\* the shape of a system: ':' and ',' are in the text, the part left of the
\* first ':' has a ',' and the part right of it has an '='
SystemShape(text) ==
    /\ Contains(text, <<":">>)
    /\ Contains(text, <<",">>)
    /\ Contains(Slice(text, 1, Find(text, <<":">>) - 1), <<",">>)
    /\ Contains(Slice(text, Find(text, <<":">>) + 1, Len(text)), <<"=">>)

\* the text has a solver invocation  solve(  in any letter case
SolverInvocation(text) == Contains(Lower(text), <<"s", "o", "l", "v", "e", "(">>)

\* C14: get_expression_type gives every text one of the four kinds: empty
\* for a blank text, equation_system for the shape of a system, equation
\* exactly for the other texts with an '=' or a solve( in any letter case,
\* numeric for the rest, and the preprocessed form of a numeric text is
\* numeric again.
C14_ClassifyTotalOrdered ==
    ret.f = "get_expression_type" =>
        LET text == ret.arg
            kind == ret.val.kind
        IN  /\ kind \in {"empty", "numeric", "equation", "equation_system"}
            /\ (kind = "empty") <=> (Strip(text) = <<>>)
            /\ Strip(text) # <<>> =>
                  /\ (kind = "equation_system") <=> SystemShape(text)
                  /\ ~SystemShape(text) =>
                        ((kind = "equation") <=>
                            (Contains(text, <<"=">>) \/ SolverInvocation(text)))
            /\ kind = "numeric" => ret.val.renorm = "numeric"

----------------------------------------------------------------------------
\* C27: get_expression_type answers equation or equation_system exactly for
\* the texts for which is_equation, which routes the evaluation of a line,
\* is true.
C27_ClassifiersAgree ==
    ret.f = "get_expression_type" =>
        ((ret.val.kind \in {"equation", "equation_system"}) <=> is_equation(ret.arg))

----------------------------------------------------------------------------
(* The content of an entry (specifications SpecQuery and SpecEval) *)

\* how many of the four kinds of content the entry e has: the value of a
\* non-equation line, flat solutions, solutions by variable, an error
Populated(e) ==
    { k \in {"value", "solutions", "variable_solutions", "error"} :
        \/ k = "value" /\ ~e.is_equation /\ e.result_type # "error"
        \/ k = "solutions" /\ e.solutions # <<>>
        \/ k = "variable_solutions" /\ e.variable_solutions # <<>>
        \/ k = "error" /\ e.result_type = "error" }

\* C15: every entry of the store has exactly one kind of content; the
\* entry of a single-variable equation has flat solutions and no solutions
\* by variable, the entry of a system has solutions by variable and no
\* flat solutions.
C15_OneContentPerEntry ==
    \A n \in DOMAIN results :
        LET e == results[n]
        IN  /\ Cardinality(Populated(e)) = 1
            /\ e.is_equation /\ e.result_type # "error" =>
                  IF IsSystemForm(e.expression)
                  THEN Populated(e) = {"variable_solutions"}
                  ELSE Populated(e) = {"solutions"}

\* C16: the value of every non-equation entry is a number (integer, real
\* or complex), or the entry is an Error entry; it is never another string
\* or another object.
C16_ValueIsNumber ==
    \A n \in DOMAIN results :
        ~results[n].is_equation =>
            \/ results[n].result_type = "error"
            \/ IsNum(results[n].result)

----------------------------------------------------------------------------
(* The result texts of the solver (specification SpecFormat) *)

\* the assignments of an answer for a system: a dict is one assignment
Assignments(solved) ==
    IF solved.shape = "dict" THEN <<[tuple |-> FALSE, items |-> solved.items]>>
    ELSE solved.list

\* C17: the text of a system has, for each declared variable in declared
\* order, the segment "var = value" when the assignments give it one value
\* and "var[0] = v0, var[1] = v1, ..." when they give it several, and the
\* segments are joined with "; ".
C17_SystemFormatting ==
    ret.f = "_solve_equation_system" =>
        LET variables == ret.arg[2]
            assignments == Assignments(ret.arg[1])
            values(i) == VarSolutions(assignments, variables, i)
            segment(i) ==
                IF Len(values(i)) = 1
                THEN variables[i] \o <<" ", "=", " ">> \o values(i)[1]
                ELSE Join([j \in 1..Len(values(i)) |->
                              variables[i] \o <<"[">> \o NatStr(j - 1)
                                  \o <<"]", " ", "=", " ">> \o values(i)[j]],
                          <<",", " ">>)
        IN  (\A i \in 1..Len(variables) : values(i) # <<>>) =>
                ret.val.s = Join([i \in 1..Len(variables) |-> segment(i)], <<";", " ">>)

\* C18: the text of a single equation depends on the number of solutions
\* only: the no-solution text for none, "x = value" for one, and
\* "x[0] = v0, x[1] = v1, ..." in the order of the backend for several.
C18_SolutionFormatting ==
    ret.f = "_format_solutions" =>
        LET solutions == ret.arg
        IN  ret.val.s =
                IF solutions = <<>> THEN <<"WUJIE">>
                ELSE IF Len(solutions) = 1
                     THEN <<"x", " ", "=", " ">> \o FormatSolution(<<>>, solutions[1])
                ELSE Join([i \in 1..Len(solutions) |->
                              <<"x", "[">> \o NatStr(i - 1) \o <<"]", " ", "=", " ">>
                                  \o FormatSolution(<<>>, solutions[i])],
                          <<",", " ">>)

----------------------------------------------------------------------------
(* The program without the backend (specification SpecBackend) *)

\* the line is handed to the solver
EquationLine(text) == is_equation(Strip(RemoveComments(Strip(text))))

\* the document with its equation lines left blank: its pass never calls
\* the solver
WithoutEquations(doc) ==
    [j \in 1..Len(doc) |-> IF EquationLine(doc[j]) THEN T_blank ELSE doc[j]]

\* line i of the document is not an equation and does not refer to one
NumericLine(doc, i) ==
    /\ ~EquationLine(doc[i])
    /\ doc[i] = T_double => ~EquationLine(doc[1])

----------------------------------------------------------------------------
(* Single lines after single lines and passes (specification SpecPersist) *)

\* the line the text refers to, for the texts "@1" and "@2"; 0 for others
ReferredLine(text) == IF text = T_ref THEN 1 ELSE IF text = T_at2 THEN 2 ELSE 0

\* the store holds an entry for line j that is not an Error entry
Usable(res, j) == j \in DOMAIN res /\ res[j].result_type # "error"

\* C20: a single-line evaluation leaves the other entries of the store in
\* place and may read any of them: line i evaluated alone with "@j"
\* succeeds and takes the value of line j whenever the store holds an entry
\* for j that is not an Error entry, also for j >= i, while in a pass the
\* same reference to line i or to a later line fails.
C20_StorePersists ==
    /\ lastOp.op = "calc" =>
          /\ \A k \in DOMAIN prev \ {lastOp.a} :
                k \in DOMAIN results /\ results[k] = prev[k]
          /\ (ReferredLine(lastOp.text) # 0 /\ Usable(prev, ReferredLine(lastOp.text))) =>
                /\ Usable(results, lastOp.a)
                /\ results[lastOp.a].result = prev[ReferredLine(lastOp.text)].result
    /\ (lastOp.op = "step" /\ ReferredLine(lastOp.text) >= lastOp.a) =>
          /\ lastOp.a \in DOMAIN results
          /\ results[lastOp.a].result_type = "error"

----------------------------------------------------------------------------
(* Reads with a variable index (specification SpecRead) *)

\* the entry of a single-variable equation whose text lists x[0], x[1], ...
ListedEquation(e) ==
    e.is_equation /\ e.result_type = "multiple" /\ ~IsSystemForm(e.expression)

\* C25: the entry of a single-variable equation whose text lists x[0], ...,
\* x[n-1] holds one solution per listed solution, in that order: a value
\* that get_result returns for solution index i is the value shown as x[i],
\* not the value, or a piece of the text, of another solution or of one
\* that is not a number.
C25_SolutionsMatchListed ==
    \A S \in 0..MaxIndex :
        (lastOp.op = "get" /\ ret.arg = <<1, S, NoIndex>>
            /\ 1 \in DOMAIN results /\ ListedEquation(results[1])) =>
            LET listed == SolveWithSympy(PreprocessEquation(results[1].expression)).solutions
            IN  /\ Len(results[1].solutions) = Len(listed)
                /\ ret.val # None =>
                      /\ S < Len(listed)
                      /\ listed[S + 1].kind = "real"
                      /\ ret.val = PyFloat(listed[S + 1].m)


\* C30: get_result with a variable index returns nothing when the entry of
\* the line has no solutions by variable (a numeric line, or no entry),
\* whatever the solution index and the variable index are; it does not
\* return the value of the line or a flat solution.
C30_VariableReadOnlyOnSystems ==
    (lastOp.op = "get" /\ ret.arg[3] # NoIndex) =>
        LET L == ret.arg[1]
        IN  (L \notin DOMAIN results \/ results[L].variable_solutions = <<>>) =>
                ret.val = None

----------------------------------------------------------------------------
(* Passes after single lines and passes (specification SpecPersist) *)

\* C28: the store after a pass is a function of the lines of the document
\* alone: it is the store of the pass that starts from the empty store,
\* whatever the store held before, so that a second pass over the same
\* document ends with the same keys and the same results.
C28_PassIdempotent ==
    PassEnded => results = PassFrom(EmptyStore, lines, 1)

\* a pass over "@1", "7", "@2" (a self reference on line 1) has ended, and
\* the store held entries before the pass: line 1 is an Error entry, line 3
\* holds the 7 of line 2
C28_Witness ==
    /\ PassEnded
    /\ lines = <<T_ref, T_seven>> \o [i \in 1..(NumLines - 2) |-> T_at2]
    /\ lastOp.b > 0
    /\ DOMAIN results = 1..NumLines
    /\ results[1].result_type = "error"
    /\ results[NumLines].result = PyInt(7)

----------------------------------------------------------------------------
(* References as operands (specification SpecOperand) *)

\* C26: a reference that is substituted is one operand: for a real value v
\* of line 1, negative values included, the line with "@1" in it gets the
\* result of the same line with the value in parentheses, (v), in place of
\* the reference; with -3 on line 1, "@1^2" is 9.
C26_ReferenceIsOperand ==
    \A i \in Surrounds :
        (lastOp.op = "calc" /\ lastOp.a = 2 /\ lastOp.text = Surround(i, T_ref)
            /\ 1 \in DOMAIN prev /\ IsReal(prev[1].result)) =>
            /\ 2 \in DOMAIN results
            /\ results[2].result
                  = Calculate(Surround(i, <<"(">> \o Str(prev[1].result) \o <<")">>))

----------------------------------------------------------------------------
(* The functions of the calculator (specification SpecWhitelist) *)

\* C23: a function of safe_dict is usable by its name, also a name with a
\* digit in it such as log10 or log2: the line "f(args)" with valid
\* arguments gets the value of the function, log10(100) is 2; the
\* multiplication signs that are inserted do not split the name.
C23_WhitelistUsable ==
    \A call \in WhitelistCalls :
        (lastOp.op = "calc" /\ lastOp.text = call.text) =>
            /\ lastOp.a \in DOMAIN results
            /\ results[lastOp.a].result = call.value

----------------------------------------------------------------------------
(* Saving, loading and exporting (specification SpecFile) *)

\* C21: a document that is saved and loaded comes back with the same text
\* and, for exactly the lines that had an entry, an entry with the same
\* line_number, expression, result, result_type, is_equation and
\* solutions.
C21_SaveLoadRoundTrip ==
    lastOp.op = "save" =>
        /\ ret.val.ok
        /\ ret.val.content = Join(lines, <<"\n">>)
        /\ DOMAIN ret.val.results = DOMAIN results
        /\ \A n \in DOMAIN results :
              /\ n \in DOMAIN ret.val.results
              /\ ret.val.results[n].line_number = results[n].line_number
              /\ ret.val.results[n].expression = results[n].expression
              /\ ret.val.results[n].result = results[n].result
              /\ ret.val.results[n].result_type = results[n].result_type
              /\ ret.val.results[n].is_equation = results[n].is_equation
              /\ ret.val.results[n].solutions = results[n].solutions

\* the result of a line of the document as the export shows it
Shown(text) ==
    CASE text = T_seven -> <<"7">>
      [] text = T_half -> <<"3", ".", "5">>
      [] text = T_tuple -> <<"(", "1", ",", " ", "2", ")">>
      [] text = T_linear -> <<"x", " ", "=", " ", "2">>
      [] OTHER -> <<>>

\* C22: the export has one line per line of the document and each begins
\* with the text of the line; two spaces, '=', a space and the result
\* follow exactly on the lines that have an entry that is not an Error
\* entry, the other lines are the text of the line alone.
C22_ExportToText ==
    lastOp.op = "export" =>
        LET exported == Split(ret.val.s, "\n")
        IN  /\ Len(exported) = Len(lines)
            /\ \A i \in 1..Len(lines) :
                  /\ StartsWith(exported[i], lines[i])
                  /\ exported[i] =
                        IF i \in DOMAIN results /\ results[i].result_type # "error"
                        THEN lines[i] \o <<" ", " ", "=", " ">> \o Shown(lines[i])
                        ELSE lines[i]

\* a document that begins with "7/2" and "1/0", both evaluated and no other
\* line, was exported: the first line shows 3.5, the second its text alone
C22_Witness ==
    /\ lastOp.op = "export"
    /\ lines[1] = T_half /\ lines[2] = T_divzero
    /\ DOMAIN results = {1, 2}
    /\ results[2].result_type = "error"
    /\ Split(ret.val.s, "\n")[1] = T_half \o <<" ", " ", "=", " ", "3", ".", "5">>
    /\ Split(ret.val.s, "\n")[2] = T_divzero


\* --------------------------------------------------------------------------
\* References of the text under edits (specification SpecEdit)
\* --------------------------------------------------------------------------

\* the text "@L"
AtRef(L) == <<"@">> \o NatStr(L)

\* the text "@INVALID_L"
InvalidRef(L) == <<"@", "I", "N", "V", "A", "L", "I", "D", "_">> \o NatStr(L)

\* the keys at which the store res holds the entry that prev held at key L,
\* an entry no other entry of prev shares its expression with
KeysOf(res, L) == {key \in DOMAIN res : res[key].expression = prev[L].expression}

Distinct(L) ==
    /\ L \in DOMAIN prev
    /\ \A key \in DOMAIN prev : key # L => prev[key].expression # prev[L].expression

\* C24: after handle_line_count_change has processed an insertion or a
\* deletion, every reference @L of the text whose target entry is still in
\* the store reads @K for the key K the entry now has, and a reference reads
\* @INVALID_L exactly when its target entry was discarded by the renumbering.
\* (Stated for the lines that are a reference to an entry recognisable by its
\* expression.)
C24_ReferencesFollowStore ==
    lastOp.op \in {"insert", "delete"} =>
        LET before == Split(lastOp.text, "\n")
        IN  \A i \in 1..Len(lines) : \A L \in 1..MaxLine :
                before[i] = AtRef(L) /\ Distinct(L) =>
                    /\ \A key \in KeysOf(results, L) : lines[i] = AtRef(key)
                    /\ lines[i] = InvalidRef(L) <=> KeysOf(results, L) = {}

====
